---- MODULE Spec2Model ----
(***************************************************************************)
(* Model of the job-market dashboard's JSON-stat handling: parseJsonStat   *)
(* (src/src/api/statfin.ts) and the Sandbox's executeQuery handler, which  *)
(* flattens a parsed response into one row per period                      *)
(* (src/src/components/SandboxSection.tsx); and of the year-over-year      *)
(* series and the y-axis domain of the charts TrendChart                   *)
(* (src/src/components/TrendsSection.tsx) and EmploymentChart              *)
(* (src/src/components/DataTable.tsx); and of the Sandbox's selectors: the *)
(* table and its metadata (fetchMetadata), the selected values of each     *)
(* variable (handleSelectionToggle) and the scale of its axis.  null is    *)
(* the string "null" for the error and the record NoMetadata for the       *)
(* metadata.                                                               *)
(*                                                                         *)
(* Strings are TLA+ strings, JavaScript arrays are sequences (index k of   *)
(* the code is position k+1 here), JavaScript objects are functions from   *)
(* their keys.  A cell of the value array is <<n>> for the number n and    *)
(* <<>> for null.                                                          *)
(***************************************************************************)
EXTENDS Integers, Sequences, FiniteSets, TLC

VARIABLES
    tableMetadata,  \* useState tableMetadata: the variables of the selected table
    response,       \* the JSON-stat2 body the server answers the query with
    loading,        \* useState loading
    error,          \* useState error: "null" or the message
    hasQueried,     \* useState hasQueried
    parsed,         \* executeQuery's local `parsed` of the last settled request
    results,        \* useState results: the flattened rows
    queriesInFlight,    \* executeQuery runs that await queryTable
    sandboxScaleMode,   \* the Sandbox's useState scaleMode
    selections,     \* useState selections: variable code -> selected values
    tableId,        \* useState tableId: "" or the id of the chosen table
    metadataLoading,    \* useState metadataLoading
    metadataRequests,   \* the tables of the fetchMetadata runs that await getTableMetadata
    chartProps,     \* the props of a chart besides data
    chartFeed,      \* the rows the chart's parent has fetched
    chartData,      \* the chart's prop data
    showYoY,        \* the chart's useState showYoY
    scaleMode,      \* EmploymentChart's useState scaleMode
    chartView       \* what the chart's last render derived

sandboxVars ==
    <<tableMetadata, response, loading, error, hasQueried, parsed, results, queriesInFlight>>

selectorVars == <<sandboxScaleMode, selections, tableId, metadataLoading, metadataRequests>>

chartVars == <<chartProps, chartFeed, chartData, showYoY, scaleMode, chartView>>

vars == <<tableMetadata, response, loading, error, hasQueried, parsed, results,
          queriesInFlight, sandboxScaleMode, selections, tableId, metadataLoading,
          metadataRequests, chartProps, chartFeed, chartData, showYoY, scaleMode, chartView>>

(***************************************************************************)
(* Bounds of the model.                                                    *)
(***************************************************************************)
MaxOther == 3       \* non-time dimensions in a response: 0..MaxOther
MaxSize == 2        \* categories of a non-time dimension: 1..MaxSize
MaxPeriods == 2     \* categories of the time dimension: 1..MaxPeriods
MaxCells == 16      \* product of the dimension sizes of a response: at most MaxCells
MaxRows == 13       \* rows of a fetched chart series: 0..MaxRows
MaxMantissa == 9    \* mantissa of a cell of the axis charts: -MaxMantissa..MaxMantissa
MaxValues == 6      \* values of a metadata variable other than Sukupuoli
MaxFetches == 3     \* fetchMetadata runs awaiting their answer: at most MaxFetches
MaxInFlight == 2    \* executeQuery runs awaiting their answer: at most MaxInFlight

(***************************************************************************)
(* Generic helpers.                                                        *)
(***************************************************************************)
Range(s) == {s[k] : k \in 1..Len(s)}

RECURSIVE Product(_)
Product(s) == IF s = <<>> THEN 1 ELSE Head(s) * Product(Tail(s))

(***************************************************************************)
(* The responses the server may answer with.  A response is the JSON-stat2 *)
(* object of src/src/types/index.ts: id (declared dimension order),        *)
(* dimension (id -> category index and label maps) and value.  A category  *)
(* index map is a sequence of [code, idx] in the iteration order of the    *)
(* JavaScript object (Object.keys order).                                  *)
(***************************************************************************)
OtherIds == <<"Sukupuoli", "Alue", "Tiedot", "Ikaluokka", "Toimiala">>

PeriodCode(k) == "2023M0" \o ToString(k)

CategoryCode(d, k) ==
    IF d = "Sukupuoli" /\ k = 1 THEN "M"
    ELSE IF d = "Sukupuoli" /\ k = 2 THEN "F"
    ELSE IF d = "Alue" THEN "MK0" \o ToString(k)
    ELSE IF d = "Tiedot" THEN "T" \o ToString(k)
    ELSE "c" \o ToString(k)

CodeOf(timeId, d, k) == IF d = timeId THEN PeriodCode(k) ELSE CategoryCode(d, k)

\* How the label map of every dimension is filled.
LabelModes == {"own", "none", "empty", "dup"}
\* How the category index map of every dimension is laid out.
IndexModes == {"ordered", "reversed", "gap", "tie"}
\* How the value array relates to the product of the dimension sizes.
ValueModes == {"exact", "short", "long", "nullfirst", "nulllast"}

CategoryLabelMap(timeId, d, n, labelMode) ==
    IF labelMode = "none" THEN <<>>
    ELSE [c \in {CodeOf(timeId, d, k) : k \in 1..n} |->
            IF labelMode = "empty" THEN ""
            ELSE IF labelMode = "dup" THEN "Yhteensa"
            ELSE "Label " \o c]

\* position k of the iteration order holds the code of declared position
\* slot(k); "reversed", "gap" and "tie" iterate the codes last to first.
CategoryIndexMap(timeId, d, n, indexMode) ==
    [k \in 1..n |->
        LET pos == IF indexMode = "ordered" THEN k ELSE n + 1 - k
        IN  [code |-> CodeOf(timeId, d, pos),
             idx  |-> IF indexMode = "gap" THEN 2 * (pos - 1)
                      ELSE IF indexMode = "tie" THEN 0
                      ELSE pos - 1]]

ValueArray(total, valueMode) ==
    LET len == IF valueMode = "short" THEN total - 1
               ELSE IF valueMode = "long" THEN total + 1
               ELSE total
    IN  [k \in 1..len |->
            IF (valueMode = "nullfirst" /\ k = 1) \/ (valueMode = "nulllast" /\ k = len)
            THEN <<>> ELSE <<10 * k>>]

\* ids: the declared order; sizes: the number of categories of ids[k];
\* absent: ids the id array names but the dimension map lacks.
MkResponse(ids, sizes, timeId, labelMode, indexMode, valueMode, absent) ==
    [id        |-> ids,
     size      |-> sizes,
     dimension |-> [d \in Range(ids) \ absent |->
                      LET n == sizes[CHOOSE k \in 1..Len(ids) : ids[k] = d]
                      IN  [label    |-> d,
                           category |-> [index |-> CategoryIndexMap(timeId, d, n, indexMode),
                                         label |-> CategoryLabelMap(timeId, d, n, labelMode)]]],
     value     |-> ValueArray(Product(sizes), valueMode)]

\* the declared order: the first n other ids with the time id at position timePos
IdOrder(n, timePos, timeId) ==
    [k \in 1..(n + 1) |->
        IF k < timePos THEN OtherIds[k]
        ELSE IF k = timePos THEN timeId
        ELSE OtherIds[k - 1]]

\* ids of the time dimension: two the time heuristic recognises, one it
\* does not
TimeIds == {"Kuukausi", "Vuosi", "Jakso"}

\* One-at-a-time variations <<labelMode, indexMode, absent, timeId>>: each
\* response departs from the plain one (own labels, ordered index maps, all
\* dimensions present, time id "Kuukausi") in at most one structural way.
Structures ==
    {<<lm, "ordered", FALSE, "Kuukausi">> : lm \in LabelModes}
        \cup {<<"own", im, FALSE, "Kuukausi">> : im \in IndexModes}
        \cup {<<"own", "ordered", TRUE, "Kuukausi">>}
        \cup {<<"own", "ordered", FALSE, timeId>> : timeId \in TimeIds}

\* <<structure, valueMode>>: every structure with a value array of the
\* exact length, and the plain structure with every value-array mode
Variations ==
    {<<st, "exact">> : st \in Structures}
        \cup {<<<<"own", "ordered", FALSE, "Kuukausi">>, vm>> : vm \in ValueModes}
        \cup {<<<<"none", "ordered", FALSE, "Kuukausi">>, vm>> : vm \in ValueModes}

(***************************************************************************)
(* parseJsonStat (statfin.ts).                                             *)
(***************************************************************************)
\* Array.prototype.sort with the comparator index[a] - index[b]: a stable
\* sort of the index map's keys by their declared index.
RECURSIVE InsertByIndex(_, _)
InsertByIndex(e, s) ==
    IF s = <<>> THEN <<e>>
    ELSE IF e.idx < Head(s).idx THEN <<e>> \o s
    ELSE <<Head(s)>> \o InsertByIndex(e, Tail(s))

\* the sort left out: the keys in the iteration order of the index map
SortByIndex_Unsorted(entries) == entries

RECURSIVE SortByIndex(_)
SortByIndex(entries) ==
    IF entries = <<>> THEN <<>>
    ELSE InsertByIndex(entries[Len(entries)], SortByIndex(SubSeq(entries, 1, Len(entries) - 1)))

SortedCodes(entries) ==
    LET sorted == SortByIndex(entries)
    IN  [k \in 1..Len(sorted) |-> sorted[k].code]

\* The result has ok = FALSE when the loop throws: data.dimension[dimId] is
\* undefined for an id the dimension map lacks, and dim.category raises a
\* TypeError.  keys is the insertion order of the dimensions object (what
\* Object.keys(parsed.dimensions) returns).
parseJsonStat(data) ==
    IF \E k \in 1..Len(data.id) : data.id[k] \notin DOMAIN data.dimension
    THEN [ok |-> FALSE]
    ELSE [ok         |-> TRUE,
          keys       |-> data.id,
          dimensions |-> [d \in Range(data.id) |-> SortedCodes(data.dimension[d].category.index)],
          values     |-> data.value,
          labels     |-> [d \in Range(data.id) |-> data.dimension[d].category.label]]

(***************************************************************************)
(* executeQuery's transformation (SandboxSection.tsx).                     *)
(***************************************************************************)
\* isTimeVariable: the code contains, compared in lower case, one of the
\* tokens Kuukausi, Vuosineljannes (with a-umlaut), Vuosi, Aika, Viikko.
\* None of OtherIds and not "Jakso" contains a token, so over the ids of
\* this model the test is membership in the token ids themselves.
TimeLikeIds == {"Kuukausi", "Vuosi", "Aika", "Viikko"}

isTimeVariable(code) == code \in TimeLikeIds

\* timeVar?.code || 'Kuukausi' with timeVar the first time variable
timeDimCodeOf(metadata) ==
    LET hits == {k \in 1..Len(metadata.variables) : isTimeVariable(metadata.variables[k])}
    IN  IF hits = {} THEN "Kuukausi"
        ELSE metadata.variables[CHOOSE k \in hits : \A j \in hits : k <= j]

\* another fallback number: parsed.values[i] ?? -1
ValueOrZero_MinusOne(values, i) ==
    IF i + 1 \in DOMAIN values /\ values[i + 1] # <<>> THEN values[i + 1][1] ELSE -1

\* parsed.values[i] ?? 0 for the 0-based index i
ValueOrZero(values, i) ==
    IF i + 1 \in DOMAIN values /\ values[i + 1] # <<>> THEN values[i + 1][1] ELSE 0

\* parsed.labels[d]?.[val] || val
LabelOrCode(p, d, val) ==
    IF val \in DOMAIN p.labels[d] /\ p.labels[d][val] # "" THEN p.labels[d][val] ELSE val

\* row[key] = v
\* a key the row already holds is left with its first value
SetKey_KeepFirst(row, key, v) ==
    [x \in DOMAIN row \cup {key} |-> IF x \in DOMAIN row THEN row[x] ELSE v]

SetKey(row, key, v) == [x \in DOMAIN row \cup {key} |-> IF x = key THEN v ELSE row[x]]

\* the assignments of one row, applied in the order the loops make them
RECURSIVE ApplyWrites(_, _)
ApplyWrites(row, writes) ==
    IF writes = <<>> THEN row
    ELSE ApplyWrites(SetKey(row, Head(writes)[1], Head(writes)[2]), Tail(writes))

NewRow(period) == [x \in {"period"} |-> period]

\* the period index left out of the subscript
RowNoDims_FirstValue(p, period, pIdx) ==
    SetKey(NewRow(period), "value", ValueOrZero(p.values, 0))

\* otherDims.length === 0: { period, value: parsed.values[pIdx] ?? 0 }
RowNoDims(p, period, pIdx) ==
    SetKey(NewRow(period), "value", ValueOrZero(p.values, pIdx))

\* the stride left out of valueIndex
WritesOneDim_NoStride(p, otherDims, pIdx) ==
    LET dimValues == p.dimensions[otherDims[1]]
    IN  [v \in 1..Len(dimValues) |->
            <<LabelOrCode(p, otherDims[1], dimValues[v]), ValueOrZero(p.values, pIdx + (v - 1))>>]

\* otherDims.length === 1
WritesOneDim(p, otherDims, pIdx) ==
    LET dimValues == p.dimensions[otherDims[1]]
    IN  [v \in 1..Len(dimValues) |->
            LET vIdx == v - 1
                valueIndex == pIdx * Len(dimValues) + vIdx
                label == LabelOrCode(p, otherDims[1], dimValues[v])
            IN  <<label, ValueOrZero(p.values, valueIndex)>>]

\* the two labels swapped in the template
KeyTwoDims_Swapped(label1, label2, dim1Len) ==
    IF dim1Len > 1 THEN label1 \o " (" \o label2 \o ")" ELSE label2

\* `${label2} (${label1})` when dim1 has several values, else label2
KeyTwoDims(label1, label2, dim1Len) ==
    IF dim1Len > 1 THEN label2 \o " (" \o label1 \o ")" ELSE label2

\* a stride slip: i1 multiplied by the first dimension's length
ValueIndexTwoDims_WrongStride(pIdx, i1, i2, len1, len2) == pIdx * (len1 * len2) + i1 * len1 + i2

\* valueIndex of the two-dimension branch
ValueIndexTwoDims(pIdx, i1, i2, len1, len2) == pIdx * (len1 * len2) + i1 * len2 + i2

\* otherDims.length === 2: dim1Values.forEach outside, dim2Values.forEach inside
WritesTwoDims(p, otherDims, pIdx) ==
    LET dim1Values == p.dimensions[otherDims[1]]
        dim2Values == p.dimensions[otherDims[2]]
        len1 == Len(dim1Values)
        len2 == Len(dim2Values)
    IN  [c \in 1..(len1 * len2) |->
            LET i1 == (c - 1) \div len2
                i2 == (c - 1) % len2
                valueIndex == ValueIndexTwoDims(pIdx, i1, i2, len1, len2)
                label1 == LabelOrCode(p, otherDims[1], dim1Values[i1 + 1])
                label2 == LabelOrCode(p, otherDims[2], dim2Values[i2 + 1])
            IN  <<KeyTwoDims(label1, label2, len1), ValueOrZero(p.values, valueIndex)>>]

RECURSIVE Join(_, _)
Join(parts, sep) ==
    IF parts = <<>> THEN ""
    ELSE IF Len(parts) = 1 THEN parts[1]
    ELSE parts[1] \o sep \o Join(Tail(parts), sep)

\* buildKey(indices, dims)
buildKey(p, indices, dims) ==
    Join([k \in 1..Len(dims) |-> LabelOrCode(p, dims[k], p.dimensions[dims[k]][indices[k] + 1])],
         " / ")

\* the division of `remaining` left out: every index is combo % dimSizes[d]
RECURSIVE DecodeCombo_NoDivide(_, _, _, _)
DecodeCombo_NoDivide(remaining, dimSizes, d, indices) ==
    IF d = 0 THEN indices
    ELSE DecodeCombo_NoDivide(remaining, dimSizes, d - 1,
                              <<remaining % dimSizes[d]>> \o indices)

\* for (d = otherDims.length - 1; d >= 0; d--) { indices.unshift(remaining % dimSizes[d]);
\* remaining = Math.floor(remaining / dimSizes[d]) }, with d counted from 1 here
RECURSIVE DecodeCombo(_, _, _, _)
DecodeCombo(remaining, dimSizes, d, indices) ==
    IF d = 0 THEN indices
    ELSE DecodeCombo(remaining \div dimSizes[d], dimSizes, d - 1,
                     <<remaining % dimSizes[d]>> \o indices)

ComboIndices(combo, dimSizes) == DecodeCombo(combo, dimSizes, Len(dimSizes), <<>>)

DimSizes(p, otherDims) == [k \in 1..Len(otherDims) |-> Len(p.dimensions[otherDims[k]])]

\* valueIndex of the 3+ branch
ValueIndexCombo(pIdx, totalCombos, combo) == pIdx * totalCombos + combo

\* 3+ dimensions: one assignment per combo, combo = 0 .. totalCombos - 1
WritesManyDims(p, otherDims, pIdx) ==
    LET dimSizes == DimSizes(p, otherDims)
        totalCombos == Product(dimSizes)
    IN  [c \in 1..totalCombos |->
            LET combo == c - 1
                indices == ComboIndices(combo, dimSizes)
                valueIndex == ValueIndexCombo(pIdx, totalCombos, combo)
            IN  <<buildKey(p, indices, otherDims), ValueOrZero(p.values, valueIndex)>>]

\* Object.keys(parsed.dimensions).filter((d) => d !== timeDimCode)
OtherDims(p, timeDimCode) == SelectSeq(p.keys, LAMBDA d : d # timeDimCode)

\* the first dimension taken for the time dimension
Periods_FirstDimension(p, timeDimCode) == p.dimensions[p.keys[1]]

\* the last dimension taken for the time dimension when none has its id
Periods_LastDimension(p, timeDimCode) ==
    IF timeDimCode \in DOMAIN p.dimensions THEN p.dimensions[timeDimCode]
    ELSE p.dimensions[p.keys[Len(p.keys)]]

\* parsed.dimensions[timeDimCode] || []
Periods(p, timeDimCode) ==
    IF timeDimCode \in DOMAIN p.dimensions THEN p.dimensions[timeDimCode] ELSE <<>>

RowWrites(p, otherDims, pIdx) ==
    IF Len(otherDims) = 1 THEN WritesOneDim(p, otherDims, pIdx)
    ELSE IF Len(otherDims) = 2 THEN WritesTwoDims(p, otherDims, pIdx)
    ELSE WritesManyDims(p, otherDims, pIdx)

\* the `transformed` array executeQuery hands to setResults
Transformed(p, timeDimCode) ==
    LET periods == Periods(p, timeDimCode)
        otherDims == OtherDims(p, timeDimCode)
    IN  [t \in 1..Len(periods) |->
            IF Len(otherDims) = 0 THEN RowNoDims(p, periods[t], t - 1)
            ELSE ApplyWrites(NewRow(periods[t]), RowWrites(p, otherDims, t - 1))]

(***************************************************************************)
(* JavaScript numbers of the charts.  A number is the exact fraction n/d   *)
(* in lowest terms with d > 0; d = 0 stands for the non-finite results of  *)
(* a division by zero: n = 1 Infinity, n = -1 -Infinity, n = 0 NaN.        *)
(* Binary rounding of the doubles is left out.                             *)
(***************************************************************************)
Abs(x) == IF x < 0 THEN -x ELSE x

Sign(x) == IF x < 0 THEN -1 ELSE IF x > 0 THEN 1 ELSE 0

RECURSIVE GCD(_, _)
GCD(a, b) == IF b = 0 THEN a ELSE GCD(b, a % b)

\* the number n/d in lowest terms
Num(n, d) ==
    IF d = 0 THEN [n |-> Sign(n), d |-> 0]
    ELSE LET g == GCD(Abs(n), Abs(d))
         IN  [n |-> Sign(d) * (n \div g), d |-> Abs(d) \div g]

Whole(k) == [n |-> k, d |-> 1]

NumAdd(a, b) == Num(a.n * b.d + b.n * a.d, a.d * b.d)

NumSub(a, b) == Num(a.n * b.d - b.n * a.d, a.d * b.d)

NumMul(a, b) == Num(a.n * b.n, a.d * b.d)

\* a / b; x / 0 is Infinity, -Infinity or NaN by the sign of x
NumDiv(a, b) == Num(a.n * b.d, a.d * b.n)

NumNeg(a) == [n |-> -a.n, d |-> a.d]

NumAbs(a) == [n |-> Abs(a.n), d |-> a.d]

NumLess(a, b) == a.n * b.d < b.n * a.d

NumLeq(a, b) == a.n * b.d <= b.n * a.d

NumMax(a, b) == IF NumLess(a, b) THEN b ELSE a

IsFiniteNum(a) == a.d # 0

\* isNaN
IsNaN(a) == a.d = 0 /\ a.n = 0

\* Math.ceil and Math.floor; a non-finite number is returned as it is
MathCeil(a) == IF a.d = 0 THEN a ELSE Whole(-((-a.n) \div a.d))

MathFloor(a) == IF a.d = 0 THEN a ELSE Whole(a.n \div a.d)

\* Math.pow(10, e)
RECURSIVE Pow10(_)
Pow10(e) ==
    IF e = 0 THEN Whole(1)
    ELSE IF e > 0 THEN NumMul(Whole(10), Pow10(e - 1))
    ELSE NumDiv(Pow10(e + 1), Whole(10))

\* Math.floor(Math.log10(x)) of a positive finite x: the e with
\* 10^e <= x < 10^(e+1)
RECURSIVE FloorLog10(_)
FloorLog10(x) ==
    IF NumLess(x, Whole(1)) THEN FloorLog10(NumMul(x, Whole(10))) - 1
    ELSE IF NumLess(x, Whole(10)) THEN 0
    ELSE FloorLog10(NumDiv(x, Whole(10))) + 1

(***************************************************************************)
(* The charts: TrendChart (TrendsSection.tsx) and EmploymentChart          *)
(* (DataTable.tsx).  A row of chart data is a function from "period" and   *)
(* the data keys; a cell is a number, or [text |-> s] for a value that is  *)
(* not a number, or its key is absent from the row.                        *)
(***************************************************************************)
\* typeof row[key] === 'number'
IsNumberAt(row, key) == key \in DOMAIN row /\ "n" \in DOMAIN row[key]

\* the operands of the subtraction exchanged
YoyChange_Reversed(isRate, currentVal, yearAgoVal) ==
    IF isRate THEN NumSub(yearAgoVal, currentVal)
    ELSE IF yearAgoVal.n = 0 THEN Whole(0)
    ELSE NumMul(NumDiv(NumSub(yearAgoVal, currentVal), yearAgoVal), Whole(100))

\* the test of a zero reference left out
YoyChange_NoZeroGuard(isRate, currentVal, yearAgoVal) ==
    IF isRate THEN NumSub(currentVal, yearAgoVal)
    ELSE NumMul(NumDiv(NumSub(currentVal, yearAgoVal), yearAgoVal), Whole(100))

\* isRate ? currentVal - yearAgoVal
\*        : yearAgoVal === 0 ? 0 : ((currentVal - yearAgoVal) / yearAgoVal) * 100
YoyChange(isRate, currentVal, yearAgoVal) ==
    IF isRate THEN NumSub(currentVal, yearAgoVal)
    ELSE IF yearAgoVal.n = 0 THEN Whole(0)
    ELSE NumMul(NumDiv(NumSub(currentVal, yearAgoVal), yearAgoVal), Whole(100))

\* the type test left out: a row lacking a number gets no change at all
YoyEntry_Untested(isRate, current, yearAgo, key) ==
    IF IsNumberAt(current, key) /\ IsNumberAt(yearAgo, key)
    THEN YoyChange(isRate, current[key], yearAgo[key])
    ELSE [text |-> "undefined"]

\* the change of one key between two rows, 0 unless both hold a number
YoyEntry(isRate, current, yearAgo, key) ==
    IF IsNumberAt(current, key) /\ IsNumberAt(yearAgo, key)
    THEN YoyChange(isRate, current[key], yearAgo[key])
    ELSE Whole(0)

\* `${metricPrefix}_${regionCode}` and `${metricPrefix}_yoy_${regionCode}`
CurrentKey(metricPrefix, regionCode) == metricPrefix \o "_" \o regionCode

YoyKey(metricPrefix, regionCode) == metricPrefix \o "_yoy_" \o regionCode

\* `yoy_${config.dataKey}`
MultiYoyKey(dataKey) == "yoy_" \o dataKey

\* the slice starting one row late: data.slice(periodsBack + 1)
YoySlice_OffByOne(data, periodsBack) ==
    [index \in 1..(Len(data) - periodsBack - 1) |->
        [current |-> data[periodsBack + 1 + index], yearAgo |-> data[index]]]

\* data.slice(periodsBack).map((current, index) => ... data[index] ...): the
\* pairs of a current row and the row periodsBack before it
YoySlice(data, periodsBack) ==
    [index \in 1..(Len(data) - periodsBack) |->
        [current |-> data[periodsBack + index], yearAgo |-> data[index]]]

\* the comparison not strict: data.length >= periodsBack
TrendHasEnoughData_AtLeast(props, data) == Len(data) >= props.periodsBack

\* TrendChart: hasEnoughData
TrendHasEnoughData(props, data) == Len(data) > props.periodsBack

\* TrendChart: yoyData
TrendYoyData(props, data) ==
    IF ~TrendHasEnoughData(props, data) THEN <<>>
    ELSE LET pairs == YoySlice(data, props.periodsBack)
         IN  [index \in 1..Len(pairs) |->
                ApplyWrites(NewRow(pairs[index].current["period"]),
                    [k \in 1..Len(props.selectedRegions) |->
                        <<YoyKey(props.metricPrefix, props.selectedRegions[k]),
                          YoyEntry(props.isRate, pairs[index].current, pairs[index].yearAgo,
                                   CurrentKey(props.metricPrefix, props.selectedRegions[k]))>>])]

\* TrendChart: lines, by their dataKey
TrendLines(props, isYoYMode) ==
    [k \in 1..Len(props.selectedRegions) |->
        IF isYoYMode THEN YoyKey(props.metricPrefix, props.selectedRegions[k])
        ELSE CurrentKey(props.metricPrefix, props.selectedRegions[k])]

\* EmploymentChart: the months of a year, the distance of the comparison
MonthsBack == 12

\* EmploymentChart: hasEnoughDataForYoY
EmploymentHasEnoughData(props, data) ==
    (props.yoyConfig # <<>> \/ props.yoyConfigs # <<>>) /\ Len(data) >= MonthsBack + 1

\* EmploymentChart: singleYoyData
SingleYoyData(props, data) ==
    IF props.yoyConfig = <<>> \/ Len(data) < MonthsBack + 1 THEN <<>>
    ELSE LET pairs == YoySlice(data, MonthsBack)
             config == props.yoyConfig[1]
         IN  [index \in 1..Len(pairs) |->
                SetKey(NewRow(pairs[index].current["period"]), "yoyValue",
                       YoyEntry(config.isRate, pairs[index].current, pairs[index].yearAgo,
                                config.dataKey))]

\* EmploymentChart: multiYoyData
MultiYoyData(props, data) ==
    IF props.yoyConfigs = <<>> \/ Len(data) < MonthsBack + 1 THEN <<>>
    ELSE LET pairs == YoySlice(data, MonthsBack)
             configs == props.yoyConfigs[1].lines
         IN  [index \in 1..Len(pairs) |->
                ApplyWrites(NewRow(pairs[index].current["period"]),
                    [k \in 1..Len(configs) |->
                        <<MultiYoyKey(configs[k].dataKey),
                          YoyEntry(configs[k].isRate, pairs[index].current,
                                   pairs[index].yearAgo, configs[k].dataKey)>>])]

\* EmploymentChart: displayLines, by their dataKey
EmploymentLines(props, isYoYMode) ==
    IF isYoYMode
    THEN (IF props.yoyConfigs # <<>>
          THEN [k \in 1..Len(props.yoyConfigs[1].lines) |->
                   MultiYoyKey(props.yoyConfigs[1].lines[k].dataKey)]
          ELSE <<"yoyValue">>)
    ELSE props.lines

\* the thresholds of rounding to the nearest used for rounding up too
NiceFraction_Nearest(fraction, roundUp) ==
    IF NumLess(fraction, Num(3, 2)) THEN Whole(1)
    ELSE IF NumLess(fraction, Whole(3)) THEN Whole(2)
    ELSE IF NumLess(fraction, Whole(7)) THEN Whole(5)
    ELSE Whole(10)

\* getNiceNumber: niceFraction
NiceFraction(fraction, roundUp) ==
    IF roundUp
    THEN (IF NumLeq(fraction, Whole(1)) THEN Whole(1)
          ELSE IF NumLeq(fraction, Whole(2)) THEN Whole(2)
          ELSE IF NumLeq(fraction, Whole(5)) THEN Whole(5)
          ELSE Whole(10))
    ELSE (IF NumLess(fraction, Num(3, 2)) THEN Whole(1)
          ELSE IF NumLess(fraction, Whole(3)) THEN Whole(2)
          ELSE IF NumLess(fraction, Whole(7)) THEN Whole(5)
          ELSE Whole(10))

\* getNiceNumber(value, roundUp).  Of a non-finite value every comparison
\* of the fraction (NaN) fails and 10 * Infinity is returned; of NaN, NaN.
getNiceNumber(value, roundUp) ==
    IF ~IsFiniteNum(value) THEN Num(Abs(value.n), 0)
    ELSE IF value.n = 0 THEN Whole(0)
    ELSE LET exponent == FloorLog10(NumAbs(value))
             fraction == NumDiv(value, Pow10(exponent))
         IN  NumMul(NiceFraction(fraction, roundUp), Pow10(exponent))

\* the numbers yAxisDomain looks at: point[line.dataKey] of every point and
\* line with typeof value === 'number' && !isNaN(value)
PlottedValues(displayData, lines) ==
    LET cells == {c \in (1..Len(displayData)) \X (1..Len(lines)) :
                     /\ IsNumberAt(displayData[c[1]], lines[c[2]])
                     /\ ~IsNaN(displayData[c[1]][lines[c[2]]])}
    IN  {displayData[c[1]][lines[c[2]]] : c \in cells}

\* the min and the max yAxisDomain accumulates over a non-empty set
MinOf(values) == CHOOSE v \in values : \A w \in values : NumLeq(v, w)

MaxOf(values) == CHOOSE v \in values : \A w \in values : NumLeq(w, v)

\* what a yAxisDomain returns: a pair of numbers, ['auto', 'auto'] or
\* undefined
Domain(lo, hi) == [tag |-> "numbers", lo |-> lo, hi |-> hi]

AutoDomain == [tag |-> "auto"]

UndefinedDomain == [tag |-> "undefined"]

\* the headroom factor left out: getNiceNumber(absMax, true)
SymmetricDomain_NoHeadroom(min, max) ==
    LET absMax == NumMax(NumAbs(min), NumAbs(max))
        niceMax == getNiceNumber(absMax, TRUE)
    IN  Domain(NumNeg(niceMax), niceMax)

\* yAxisDomain, YoY mode, min < 0 && max > 0
SymmetricDomain(min, max) ==
    LET absMax == NumMax(NumAbs(min), NumAbs(max))
        niceMax == getNiceNumber(NumMul(absMax, Num(11, 10)), TRUE)
    IN  Domain(NumNeg(niceMax), niceMax)

\* the padded bounds rounded to the nearest nice number, not upwards
PaddedDomain_Nearest(min, max) ==
    LET range == NumSub(max, min)
        padding == NumMul(range, Num(1, 10))
        niceMin == IF NumLeq(Whole(0), min) THEN Whole(0)
                   ELSE NumNeg(getNiceNumber(NumAbs(NumSub(min, padding)), FALSE))
        niceMax == IF NumLeq(max, Whole(0)) THEN Whole(0)
                   ELSE getNiceNumber(NumAdd(max, padding), FALSE)
    IN  Domain(niceMin, niceMax)

\* the padding left out of both bounds
PaddedDomain_NoPadding(min, max) ==
    LET niceMin == IF NumLeq(Whole(0), min) THEN Whole(0)
                   ELSE NumNeg(getNiceNumber(NumAbs(min), TRUE))
        niceMax == IF NumLeq(max, Whole(0)) THEN Whole(0)
                   ELSE getNiceNumber(max, TRUE)
    IN  Domain(niceMin, niceMax)

\* yAxisDomain, YoY mode, all values on one side of zero
PaddedDomain(min, max) ==
    LET range == NumSub(max, min)
        padding == NumMul(range, Num(1, 10))
        niceMin == IF NumLeq(Whole(0), min) THEN Whole(0)
                   ELSE NumNeg(getNiceNumber(NumAbs(NumSub(min, padding)), TRUE))
        niceMax == IF NumLeq(max, Whole(0)) THEN Whole(0)
                   ELSE getNiceNumber(NumAdd(max, padding), TRUE)
    IN  Domain(niceMin, niceMax)

\* yAxisDomain, YoY mode
YoyDomain(min, max) ==
    IF NumLess(min, Whole(0)) /\ NumLess(Whole(0), max) THEN SymmetricDomain(min, max)
    ELSE PaddedDomain(min, max)

\* Math.floor in the place of Math.ceil
AbsoluteDomain_Floor(max) == Domain(Whole(0), MathFloor(NumMul(max, Num(11, 10))))

\* scaleMode === 'absolute': [0, Math.ceil(max * 1.1)]
AbsoluteDomain(max) == Domain(Whole(0), MathCeil(NumMul(max, Num(11, 10))))

\* scaleMode 'relative': 15 % of the range as padding, bounds on tens
RelativeDomain(min, max) ==
    LET range == NumSub(max, min)
        padding == NumMul(range, Num(15, 100))
        niceMin == NumMax(Whole(0),
                          NumMul(MathFloor(NumDiv(NumSub(min, padding), Whole(10))), Whole(10)))
        niceMax == NumMul(MathCeil(NumDiv(NumAdd(max, padding), Whole(10))), Whole(10))
    IN  Domain(niceMin, niceMax)

\* min === Infinity || max === -Infinity: no number was seen
NothingPlotted(values) ==
    values = {} \/ MinOf(values) = Num(1, 0) \/ MaxOf(values) = Num(-1, 0)

\* TrendChart: yAxisDomain
TrendYAxisDomain(displayData, lines, isYoYMode) ==
    LET values == PlottedValues(displayData, lines)
    IN  IF NothingPlotted(values) THEN UndefinedDomain
        ELSE IF isYoYMode THEN YoyDomain(MinOf(values), MaxOf(values))
        ELSE AutoDomain

\* EmploymentChart: yAxisDomain
EmploymentYAxisDomain(displayData, lines, mode, isYoYMode) ==
    LET values == PlottedValues(displayData, lines)
    IN  IF NothingPlotted(values) THEN UndefinedDomain
        ELSE IF isYoYMode THEN YoyDomain(MinOf(values), MaxOf(values))
        ELSE IF mode = "absolute" THEN AbsoluteDomain(MaxOf(values))
        ELSE RelativeDomain(MinOf(values), MaxOf(values))

\* what one render of a chart derives from its props and state
RenderChart(props, data, yoy, mode) ==
    IF props.component = "TrendChart"
    THEN LET hasEnoughData == TrendHasEnoughData(props, data)
             isYoYMode == yoy /\ hasEnoughData
             yoyData == TrendYoyData(props, data)
             displayData == IF isYoYMode THEN yoyData ELSE data
             lines == TrendLines(props, isYoYMode)
         IN  [hasEnoughData |-> hasEnoughData, isYoYMode |-> isYoYMode,
              yoyData |-> yoyData, displayData |-> displayData, lines |-> lines,
              yAxisDomain |-> TrendYAxisDomain(displayData, lines, isYoYMode)]
    ELSE LET hasEnoughData == EmploymentHasEnoughData(props, data)
             isYoYMode == yoy /\ hasEnoughData
             yoyData == IF props.yoyConfigs # <<>> THEN MultiYoyData(props, data)
                        ELSE SingleYoyData(props, data)
             displayData == IF isYoYMode THEN yoyData ELSE data
             lines == EmploymentLines(props, isYoYMode)
         IN  [hasEnoughData |-> hasEnoughData, isYoYMode |-> isYoYMode,
              yoyData |-> yoyData, displayData |-> displayData, lines |-> lines,
              yAxisDomain |-> EmploymentYAxisDomain(displayData, lines, mode, isYoYMode)]

(***************************************************************************)
(* The Sandbox's selectors (SandboxSection.tsx): the chosen table and its  *)
(* metadata, the selected values of each variable, the scale of the axis.  *)
(***************************************************************************)

\* tableMetadata === null; a metadata object has no isNull field
NoMetadata == [variables |-> <<>>, isNull |-> TRUE]

\* tableId === ''
NoTable == ""

\* the tables of the dataset
Tables == {"135y", "137l"}

\* what getTableMetadata answers for a table
MetadataOf(table) ==
    IF table = "135y" THEN [variables |-> <<"Kuukausi", "Sukupuoli">>]
    ELSE [variables |-> <<"Vuosi", "Alue", "Sukupuoli">>]

\* v.values of a metadata variable: three values of Sukupuoli, MaxValues
\* of every other variable
VariableValues(code) ==
    IF code = "Sukupuoli" THEN [k \in 1..3 |-> CategoryCode(code, k)]
    ELSE [k \in 1..MaxValues |-> CategoryCode(code, k)]

\* the variables a selector is rendered for
SelectableCodes(metadata) == {c \in Range(metadata.variables) : ~isTimeVariable(c)}

\* fetchMetadata's newSelections: the first three values of a variable of
\* at most five, the first two of a longer one, none of a time variable
DefaultSelections(metadata) ==
    [c \in SelectableCodes(metadata) |->
        LET values == VariableValues(c)
        IN  IF Len(values) <= 5
            THEN SubSeq(values, 1, IF Len(values) < 3 THEN Len(values) ELSE 3)
            ELSE SubSeq(values, 1, 2)]

\* selections === {}
NoSelections == [c \in {} |-> <<>>]

\* prev[code] || []
SelectedOf(prev, code) == IF code \in DOMAIN prev THEN prev[code] ELSE <<>>

\* { ...prev, [code]: values }
WithSelection(prev, code, values) ==
    [c \in DOMAIN prev \cup {code} |-> IF c = code THEN values ELSE prev[c]]

\* current.filter((v) => v !== value)
Without(current, value) == SelectSeq(current, LAMBDA v : v # value)

\* current.length < 5: at most five values of a variable are selected
MaxSelected == 5

\* a sixth value accepted: current.length <= 5
Toggled_AtMost(prev, code, value) ==
    LET current == SelectedOf(prev, code)
    IN  IF value \in Range(current)
        THEN IF Len(current) > 1
             THEN WithSelection(prev, code, Without(current, value))
             ELSE prev
        ELSE IF Len(current) <= MaxSelected
             THEN WithSelection(prev, code, Append(current, value))
             ELSE prev

\* the updater handleSelectionToggle passes to setSelections
Toggled(prev, code, value) ==
    LET current == SelectedOf(prev, code)
    IN  IF value \in Range(current)
        THEN IF Len(current) > 1
             THEN WithSelection(prev, code, Without(current, value))
             ELSE prev
        ELSE IF Len(current) < MaxSelected
             THEN WithSelection(prev, code, Append(current, value))
             ELSE prev

\* the Sandbox's dataKeys: the keys of the first row but 'period'
SandboxDataKeys(rows) == IF rows = <<>> THEN {} ELSE DOMAIN rows[1] \ {"period"}

\* [0, 'auto']: the lower bound 0, the upper bound left to the chart
ZeroAutoDomain == [tag |-> "zeroAuto"]

\* scaleMode === 'absolute' ? [0, 'auto'] : undefined
SandboxNoDomain(mode) == IF mode = "absolute" THEN ZeroAutoDomain ELSE UndefinedDomain

\* a numeric pair returned although no number was seen
SandboxYAxisDomain_Unguarded(rows, mode) ==
    IF mode = "absolute" THEN Domain(Whole(0), Whole(0)) ELSE UndefinedDomain

\* the Sandbox's yAxisDomain; every value of a flattened row is a number
SandboxYAxisDomain(rows, mode) ==
    LET dataKeys == SandboxDataKeys(rows)
        values == UNION {{Whole(rows[r][k]) : k \in dataKeys \cap DOMAIN rows[r]} :
                            r \in 1..Len(rows)}
    IN  IF rows = <<>> \/ dataKeys = {} THEN SandboxNoDomain(mode)
        ELSE IF NothingPlotted(values) THEN SandboxNoDomain(mode)
        ELSE IF mode = "absolute" THEN AbsoluteDomain(MaxOf(values))
        ELSE RelativeDomain(MinOf(values), MaxOf(values))

\* the state of the selectors before a table is chosen
SelectorIdle ==
    /\ sandboxScaleMode = "absolute"
    /\ selections = NoSelections
    /\ tableId = NoTable
    /\ metadataLoading = FALSE
    /\ metadataRequests = <<>>

\* the state of the selectors once the metadata of a table has arrived
SelectorLoaded(table, metadata) ==
    /\ sandboxScaleMode = "absolute"
    /\ selections = DefaultSelections(metadata)
    /\ tableId = table
    /\ metadataLoading = FALSE
    /\ metadataRequests = <<>>

(***************************************************************************)
(* The Sandbox's query state machine.                                      *)
(***************************************************************************)
QueryFailedMessage == "Tietojen haku epaonnistui"

\* TrendChart's props (those the series and the axis depend on)
TrendProps(metricPrefix, selectedRegions, isRate, periodsBack) ==
    [component |-> "TrendChart", metricPrefix |-> metricPrefix,
     selectedRegions |-> selectedRegions, isRate |-> isRate, periodsBack |-> periodsBack]

\* EmploymentChart's props; <<>> is an absent yoyConfig or yoyConfigs
EmploymentProps(lines, yoyConfig, yoyConfigs) ==
    [component |-> "EmploymentChart", lines |-> lines,
     yoyConfig |-> yoyConfig, yoyConfigs |-> yoyConfigs]

\* the state of a chart whose section has fetched nothing: data [],
\* showYoY false, scaleMode 'absolute'
ChartShows(props, feed) ==
    /\ chartProps = props
    /\ chartFeed = feed
    /\ chartData = feed
    /\ showYoY = FALSE
    /\ scaleMode = "absolute"
    /\ chartView = RenderChart(props, feed, FALSE, "absolute")

ChartNotLoaded == ChartShows(TrendProps("employed", <<"SSS">>, FALSE, 4), <<>>)

NotParsed == [ok |-> FALSE]

\* the response of a table with the time dimension alone
PlainResponse == MkResponse(<<"Kuukausi">>, <<1>>, "Kuukausi", "own", "ordered", "exact", {})

\* a table whose metadata lists the dimensions of the response
QueriedTable == "px"

\* the Sandbox before a table is chosen, or with the metadata of a table
\* loaded and the response the server will answer its queries with: up to
\* maxOther non-time dimensions of up to maxSize categories, up to
\* maxPeriods periods
SandboxWith(maxOther, maxSize, maxPeriods) ==
    /\ \/ /\ tableMetadata = NoMetadata
          /\ response = PlainResponse
          /\ SelectorIdle
       \/ \E n \in 0..maxOther, variation \in Variations :
            \E timePos \in 1..(n + 1), sz \in [1..n -> 1..maxSize], periods \in 1..maxPeriods :
               LET st == variation[1]
                   vm == variation[2]
                   ids == IdOrder(n, timePos, st[4])
                   sizes == [k \in 1..(n + 1) |->
                               IF k = timePos THEN periods
                               ELSE sz[IF k < timePos THEN k ELSE k - 1]]
                   absent == IF st[3] /\ n > 0 THEN {OtherIds[n]} ELSE {}
               IN  /\ Product(sizes) <= MaxCells
                   /\ response = MkResponse(ids, sizes, st[4], st[1], st[2], vm, absent)
                   /\ tableMetadata = [variables |-> ids]
                   /\ SelectorLoaded(QueriedTable, [variables |-> ids])
    /\ queriesInFlight = 0
    /\ loading = FALSE
    /\ error = "null"
    /\ hasQueried = FALSE
    /\ parsed = NotParsed
    /\ results = <<>>

\* the Sandbox next to a chart whose section has fetched nothing
SandboxStarts(maxOther, maxSize, maxPeriods) ==
    SandboxWith(maxOther, maxSize, maxPeriods) /\ ChartNotLoaded

Init == SandboxStarts(MaxOther, MaxSize, MaxPeriods)

\* {error && (...)}: the error box
ErrorShown == error # "null"

\* the results panel rendered whatever the error
ResultsPanelShown_IgnoresError == hasQueried /\ ~loading

\* {hasQueried && !loading && !error && (...)}: the results panel
ResultsPanelShown == hasQueried /\ ~loading /\ error = "null"

\* the button enabled whatever the state
QueryDisabled_Never == FALSE

\* disabled={loading || !tableMetadata} of the "Hae tiedot" button
QueryDisabled == loading \/ tableMetadata = NoMetadata

\* the "Hae tiedot" button (disabled={loading || !tableMetadata}) runs
\* executeQuery up to its await
ExecuteQuery ==
    /\ ~QueryDisabled
    /\ queriesInFlight < MaxInFlight
    /\ queriesInFlight' = queriesInFlight + 1
    /\ loading' = TRUE
    /\ error' = "null"
    /\ hasQueried' = TRUE
    /\ UNCHANGED <<tableMetadata, response, parsed, results>>
    /\ UNCHANGED selectorVars
    /\ UNCHANGED chartVars

\* queryTable resolves: parse, flatten, setResults; a throw of parseJsonStat
\* is caught and reported; finally setLoading(false)
QueryResolved ==
    /\ queriesInFlight > 0
    /\ queriesInFlight' = queriesInFlight - 1
    /\ LET p == parseJsonStat(response)
       IN  /\ parsed' = p
           /\ IF p.ok
              THEN /\ results' = Transformed(p, timeDimCodeOf(tableMetadata))
                   /\ UNCHANGED error
              ELSE /\ error' = QueryFailedMessage
                   /\ UNCHANGED results
    /\ loading' = FALSE
    /\ UNCHANGED <<tableMetadata, response, hasQueried>>
    /\ UNCHANGED selectorVars
    /\ UNCHANGED chartVars

\* the catch branch without the finally block: loading stays true
QueryRejected_NoFinally ==
    /\ queriesInFlight > 0
    /\ queriesInFlight' = queriesInFlight - 1
    /\ error' = QueryFailedMessage
    /\ UNCHANGED <<tableMetadata, response, loading, hasQueried, parsed, results>>
    /\ UNCHANGED selectorVars
    /\ UNCHANGED chartVars

\* queryTable rejects (network or HTTP error)
QueryRejected ==
    /\ queriesInFlight > 0
    /\ queriesInFlight' = queriesInFlight - 1
    /\ error' = QueryFailedMessage
    /\ loading' = FALSE
    /\ UNCHANGED <<tableMetadata, response, hasQueried, parsed, results>>
    /\ UNCHANGED selectorVars
    /\ UNCHANGED chartVars

Next == ExecuteQuery \/ QueryResolved \/ QueryRejected

Spec == Init /\ [][Next]_vars

\* the promise executeQuery awaits settles: queryTable resolves or rejects.
\* Whether a run ends does not depend on the size of the response: tables
\* of at most one non-time dimension, two categories and two periods.
SpecSettles ==
    SandboxStarts(1, 2, 2) /\ [][Next]_vars /\ WF_vars(QueryResolved \/ QueryRejected)

(***************************************************************************)
(* The charts' state machine: the mode buttons and a new data prop, each   *)
(* followed by the render it causes.                                       *)
(***************************************************************************)
\* the Sandbox while a chart is looked at: a table selected, nothing queried
SandboxIdle ==
    /\ tableMetadata = NoMetadata
    /\ response = PlainResponse
    /\ SelectorIdle
    /\ queriesInFlight = 0
    /\ loading = FALSE
    /\ error = "null"
    /\ hasQueried = FALSE
    /\ parsed = NotParsed
    /\ results = <<>>

\* the data keys of the rows a chart reads
DataKeysOf(props) ==
    IF props.component = "TrendChart"
    THEN [k \in 1..Len(props.selectedRegions) |->
             CurrentKey(props.metricPrefix, props.selectedRegions[k])]
    ELSE props.lines

\* the period of row r of a monthly series that starts in January 2023
MonthCode(r) ==
    LET year == 2023 + ((r - 1) \div 12)
        month == ((r - 1) % 12) + 1
    IN  ToString(year) \o (IF month < 10 THEN "M0" ELSE "M") \o ToString(month)

\* a cell of a fetched row: a number, a value that is no number, or nothing
NoNumber == [text |-> "-"]

Missing == [missing |-> TRUE]

SeriesCells ==
    {Whole(0), Whole(5), Num(15, 2), Whole(100), Whole(110), Whole(150), NoNumber, Missing}

\* a fetched series of len rows: the first key holds cell a up to row
\* switch and cell b after it, every further key b and then a; a Missing
\* cell leaves its key out of the row
SeriesRows(keys, a, b, switch, len) ==
    [r \in 1..len |->
        LET cellOf(k) == IF (r <= switch) = (k = 1) THEN a ELSE b
            present == {k \in 1..Len(keys) : cellOf(k) # Missing}
        IN  [x \in {"period"} \cup {keys[k] : k \in present} |->
                IF x = "period" THEN MonthCode(r)
                ELSE cellOf(CHOOSE k \in present : keys[k] = x)]]

\* the rows where a series may change its cell
SwitchPoints(len) == {len \div 2, len - 1} \cap Nat

\* the charts of the YoY series: TrendChart as TrendsSection uses it
\* (quarterly 4, monthly 12) and over one period, EmploymentChart with a
\* single yoyConfig and with yoyConfigs
PeriodsBackChoices == {1, 4, 12}

YoyCharts ==
    {TrendProps("employed", <<"SSS", "MK01">>, isRate, periodsBack) :
        isRate \in BOOLEAN, periodsBack \in PeriodsBackChoices}
    \cup {EmploymentProps(<<"employed">>, <<[dataKey |-> "employed", isRate |-> isRate]>>, <<>>) :
            isRate \in BOOLEAN}
    \cup {EmploymentProps(<<"employed", "employmentRate">>, <<>>,
            <<[lines |-> <<[dataKey |-> "employed", isRate |-> FALSE],
                           [dataKey |-> "employmentRate", isRate |-> TRUE]>>]>>)}

InitYoY ==
    /\ SandboxIdle
    /\ \E props \in YoyCharts, len \in 0..MaxRows, a \in SeriesCells, b \in SeriesCells :
         \E switch \in SwitchPoints(len) :
            ChartShows(props, SeriesRows(DataKeysOf(props), a, b, switch, len))

\* the buttons "Arvo" (setShowYoY(false)) and "Vuosimuutos"
\* (setShowYoY(true), disabled without enough data)
SetShowYoY(yoy) ==
    /\ yoy => chartView.hasEnoughData
    /\ showYoY' = yoy
    /\ chartView' = RenderChart(chartProps, chartData, yoy, scaleMode)
    /\ UNCHANGED <<chartProps, chartFeed, chartData, scaleMode>>
    /\ UNCHANGED sandboxVars
    /\ UNCHANGED selectorVars

\* EmploymentChart's scale buttons, rendered outside YoY mode
SetScaleMode(mode) ==
    /\ chartProps.component = "EmploymentChart"
    /\ ~chartView.isYoYMode
    /\ scaleMode' = mode
    /\ chartView' = RenderChart(chartProps, chartData, showYoY, mode)
    /\ UNCHANGED <<chartProps, chartFeed, chartData, showYoY>>
    /\ UNCHANGED sandboxVars
    /\ UNCHANGED selectorVars

\* the lengths of the data a parent hands down: nothing, the fetched rows
\* but the last, all fetched rows
DeliveredLengths == {0, Len(chartFeed) - 1, Len(chartFeed)} \cap Nat

\* the parent renders the chart with a new data prop
ReplaceData(len) ==
    /\ chartData' = SubSeq(chartFeed, 1, len)
    /\ chartView' = RenderChart(chartProps, chartData', showYoY, scaleMode)
    /\ UNCHANGED <<chartProps, chartFeed, showYoY, scaleMode>>
    /\ UNCHANGED sandboxVars
    /\ UNCHANGED selectorVars

NextChart ==
    \/ \E yoy \in BOOLEAN : SetShowYoY(yoy)
    \/ \E mode \in {"absolute", "relative"} : SetScaleMode(mode)
    \/ \E len \in DeliveredLengths : ReplaceData(len)

SpecYoY == InitYoY /\ [][NextChart]_vars

\* the charts of the axis: two rate lines each, so that a YoY value is the
\* difference of the current and the reference cell
AxisCharts ==
    {TrendProps("employmentRate", <<"SSS", "MK01">>, TRUE, 1),
     EmploymentProps(<<"employmentRate", "unemploymentRate">>, <<>>,
        <<[lines |-> <<[dataKey |-> "employmentRate", isRate |-> TRUE],
                       [dataKey |-> "unemploymentRate", isRate |-> TRUE]>>]>>)}

\* the numbers a cell is drawn from: m tenths, m units and m tens
AxisGrid ==
    {Num(m * unit, 10) : m \in (-MaxMantissa)..MaxMantissa, unit \in {1, 10, 100}}

\* the cells of the reference rows
ReferencePairs ==
    {<<Whole(0), Whole(0)>>, <<Whole(-20), Whole(-5)>>, <<Whole(12), Whole(45)>>}

\* a fetched series of back reference rows and one current row
ComparedRows(keys, reference, current, back) ==
    [r \in 1..(back + 1) |->
        [x \in {"period"} \cup Range(keys) |->
            IF x = "period" THEN MonthCode(r)
            ELSE LET k == CHOOSE k \in 1..Len(keys) : keys[k] = x
                 IN  IF r <= back THEN reference[k] ELSE current[k]]]

\* the distance of a chart's comparison
BackOf(props) == IF props.component = "TrendChart" THEN props.periodsBack ELSE MonthsBack

InitAxis ==
    /\ SandboxIdle
    /\ \E props \in AxisCharts, reference \in ReferencePairs :
         \E c1 \in AxisGrid, c2 \in AxisGrid :
            /\ NumLeq(c1, c2)
            /\ ChartShows(props,
                  ComparedRows(DataKeysOf(props), reference, <<c1, c2>>, BackOf(props)))

SpecAxis == InitAxis /\ [][NextChart]_vars

(***************************************************************************)
(* The Sandbox's selectors as a state machine: the scale buttons, the      *)
(* value buttons of a variable, the choice of a table and the answers to   *)
(* fetchMetadata.                                                          *)
(***************************************************************************)

\* the scale buttons "Absoluuttinen" and "Suhteellinen", rendered with the
\* metadata of a table loaded
SetSandboxScaleMode(mode) ==
    /\ tableMetadata # NoMetadata
    /\ sandboxScaleMode' = mode
    /\ UNCHANGED <<selections, tableId, metadataLoading, metadataRequests>>
    /\ UNCHANGED sandboxVars
    /\ UNCHANGED chartVars

\* a Sandbox of a table with at most the time dimension, next to a chart
\* whose rows hold a number, a text or nothing under each key
DegenerateCells == {Whole(5), NoNumber, Missing}

DegenerateCharts ==
    {TrendProps("employed", <<"SSS", "MK01">>, FALSE, 1),
     EmploymentProps(<<"employed">>, <<[dataKey |-> "employed", isRate |-> FALSE]>>, <<>>),
     EmploymentProps(<<"employed", "employmentRate">>, <<>>,
        <<[lines |-> <<[dataKey |-> "employed", isRate |-> FALSE],
                       [dataKey |-> "employmentRate", isRate |-> TRUE]>>]>>)}

InitDegenerate ==
    /\ SandboxWith(0, 1, 1)
    /\ \E props \in DegenerateCharts, len \in {0, 2}, a \in DegenerateCells, b \in DegenerateCells :
          ChartShows(props, SeriesRows(DataKeysOf(props), a, b, len \div 2, len))

NextDegenerate ==
    \/ Next
    \/ NextChart
    \/ \E mode \in {"absolute", "relative"} : SetSandboxScaleMode(mode)

SpecDegenerate == InitDegenerate /\ [][NextDegenerate]_vars

\* a value button of a variable's selector, rendered with the metadata
\* loaded: setSelections with the toggling updater
HandleSelectionToggle(code, value) ==
    /\ tableMetadata # NoMetadata
    /\ ~metadataLoading
    /\ code \in SelectableCodes(tableMetadata)
    /\ value \in Range(VariableValues(code))
    /\ selections' = Toggled(selections, code, value)
    /\ UNCHANGED <<sandboxScaleMode, tableId, metadataLoading, metadataRequests>>
    /\ UNCHANGED sandboxVars
    /\ UNCHANGED chartVars

\* the first len values of a variable, or all of them if it has fewer
FirstValues(code, len) ==
    LET values == VariableValues(code)
    IN  SubSeq(values, 1, IF Len(values) < len THEN Len(values) ELSE len)

\* a Sandbox with the metadata of a table loaded and one to five values of
\* each of its variables selected
InitSelect ==
    /\ \E table \in Tables :
          /\ tableMetadata = MetadataOf(table)
          /\ tableId = table
          /\ \E len \in [SelectableCodes(MetadataOf(table)) -> 1..MaxSelected] :
                selections = [c \in SelectableCodes(MetadataOf(table)) |-> FirstValues(c, len[c])]
    /\ response = PlainResponse
    /\ sandboxScaleMode = "absolute"
    /\ metadataLoading = FALSE
    /\ metadataRequests = <<>>
    /\ queriesInFlight = 0
    /\ loading = FALSE
    /\ error = "null"
    /\ hasQueried = FALSE
    /\ parsed = NotParsed
    /\ results = <<>>
    /\ ChartNotLoaded

NextSelect ==
    \E code \in SelectableCodes(tableMetadata) :
        \E value \in Range(VariableValues(code)) : HandleSelectionToggle(code, value)

SpecSelect == InitSelect /\ [][NextSelect]_vars

MetadataFailedMessage == "Taulukon metatietojen haku epaonnistui"

\* the sequence without its i-th element
RemoveAt(seq, i) == SubSeq(seq, 1, i - 1) \o SubSeq(seq, i + 1, Len(seq))

\* the table selector (setTableId) and the run of the effect on
\* [dataset, tableId] it causes: no table, the metadata is dropped;
\* otherwise fetchMetadata runs up to its await
SelectTable(table) ==
    /\ table # tableId
    /\ tableId' = table
    /\ IF table = NoTable
       THEN /\ tableMetadata' = NoMetadata
            /\ UNCHANGED <<metadataLoading, error, metadataRequests>>
       ELSE /\ Len(metadataRequests) < MaxFetches
            /\ metadataLoading' = TRUE
            /\ error' = "null"
            /\ metadataRequests' = Append(metadataRequests, table)
            /\ UNCHANGED tableMetadata
    /\ UNCHANGED <<sandboxScaleMode, selections>>
    /\ UNCHANGED <<response, loading, hasQueried, parsed, results, queriesInFlight>>
    /\ UNCHANGED chartVars

\* getTableMetadata of the i-th awaiting run resolves: the metadata and the
\* default selections are stored, the results are cleared
MetadataResolved(i) ==
    /\ i \in 1..Len(metadataRequests)
    /\ tableMetadata' = MetadataOf(metadataRequests[i])
    /\ selections' = DefaultSelections(MetadataOf(metadataRequests[i]))
    /\ results' = <<>>
    /\ hasQueried' = FALSE
    /\ metadataLoading' = FALSE
    /\ metadataRequests' = RemoveAt(metadataRequests, i)
    /\ UNCHANGED <<sandboxScaleMode, tableId>>
    /\ UNCHANGED <<response, loading, error, parsed, queriesInFlight>>
    /\ UNCHANGED chartVars

\* getTableMetadata of the i-th awaiting run rejects
MetadataRejected(i) ==
    /\ i \in 1..Len(metadataRequests)
    /\ error' = MetadataFailedMessage
    /\ tableMetadata' = NoMetadata
    /\ metadataLoading' = FALSE
    /\ metadataRequests' = RemoveAt(metadataRequests, i)
    /\ UNCHANGED <<sandboxScaleMode, selections, tableId>>
    /\ UNCHANGED <<response, loading, hasQueried, parsed, results, queriesInFlight>>
    /\ UNCHANGED chartVars

\* the Sandbox as constructed (no table, no metadata), or showing the rows
\* of a query of the table 135y
InitFetch ==
    /\ \/ SandboxIdle
       \/ /\ tableMetadata = MetadataOf("135y")
          /\ SelectorLoaded("135y", MetadataOf("135y"))
          /\ response = PlainResponse
          /\ queriesInFlight = 0
          /\ loading = FALSE
          /\ error = "null"
          /\ hasQueried = TRUE
          /\ parsed = parseJsonStat(PlainResponse)
          /\ results = Transformed(parseJsonStat(PlainResponse), "Kuukausi")
    /\ ChartNotLoaded

NextFetch ==
    \/ \E table \in Tables \cup {NoTable} : SelectTable(table)
    \/ \E i \in 1..Len(metadataRequests) : MetadataResolved(i)
    \/ \E i \in 1..Len(metadataRequests) : MetadataRejected(i)

SpecFetch == InitFetch /\ [][NextFetch]_vars

(***************************************************************************)
(* Vocabulary of the properties below.                                     *)
(***************************************************************************)
timeDimCode == timeDimCodeOf(tableMetadata)

\* the settled request parsed its response, and results holds its rows
Flattened == parsed.ok

periodsOf == Periods(parsed, timeDimCode)

otherDimsOf == OtherDims(parsed, timeDimCode)

sizesOf == DimSizes(parsed, otherDimsOf)

\* the row-major linear index of an index vector: sum of index_i times the
\* product of the later sizes
RECURSIVE RowMajor(_, _)
RowMajor(indices, sizes) ==
    IF indices = <<>> THEN 0
    ELSE Head(indices) * Product(Tail(sizes)) + RowMajor(Tail(indices), Tail(sizes))

\* all index vectors below the sizes
RECURSIVE Combinations(_)
Combinations(sizes) ==
    IF sizes = <<>> THEN {<<>>}
    ELSE {<<h>> \o rest : h \in 0..(Head(sizes) - 1), rest \in Combinations(Tail(sizes))}

\* the label the response gives category position k (from 0) of dimension d,
\* or the code when it gives none
CategoryText(d, k) ==
    LET code == parsed.dimensions[d][k + 1]
        labelMap == response.dimension[d].category.label
    IN  IF code \in DOMAIN labelMap /\ labelMap[code] # "" THEN labelMap[code] ELSE code

\* the metric key of a combination of the other dimensions (section 3)
RECURSIVE SlashJoined(_)
SlashJoined(texts) ==
    IF Len(texts) = 1 THEN texts[1]
    ELSE SlashJoined(SubSeq(texts, 1, Len(texts) - 1)) \o " / " \o texts[Len(texts)]

MetricKey(ix) ==
    LET texts == [k \in 1..Len(ix) |-> CategoryText(otherDimsOf[k], ix[k])]
    IN  IF Len(ix) = 1 THEN texts[1]
        ELSE IF Len(ix) = 2
             THEN (IF sizesOf[1] > 1 THEN texts[2] \o " (" \o texts[1] \o ")" ELSE texts[2])
        ELSE SlashJoined(texts)

\* the index vector whose row-major linear index is c
IndexVector(c, sizes) ==
    [k \in 1..Len(sizes) |-> (c \div Product(SubSeq(sizes, k + 1, Len(sizes)))) % sizes[k]]

\* the metric key of every combination of the other dimensions, by the
\* combination's row-major linear index (its place in the enumeration)
KeyTable == [c \in 0..(Product(sizesOf) - 1) |-> MetricKey(IndexVector(c, sizesOf))]

\* no combination enumerated after the c-th synthesizes the same key
LastWithItsKey(keys, c) ==
    \A later \in DOMAIN keys : later > c => keys[later] # keys[c]

\* the number at 0-based position i of the response's value array, 0 when
\* the position holds none
SourceValue(i) == ValueOrZero(response.value, i)

\* C1: with exactly two other dimensions of sizes (a, b), the row of period
\* t holds values[t*a*b + i*b + j] under the key of combination (i, j), for
\* every t, i, j (of a key shared by several combinations, the combination
\* enumerated last).
C1_TwoDimAddressing ==
    (Flattened /\ Len(otherDimsOf) = 2) =>
        LET a == sizesOf[1]
            b == sizesOf[2]
            keys == KeyTable
        IN  \A t \in 0..(Len(periodsOf) - 1), i \in 0..(a - 1), j \in 0..(b - 1) :
                LastWithItsKey(keys, i * b + j) =>
                    /\ MetricKey(<<i, j>>) \in DOMAIN results[t + 1]
                    /\ results[t + 1][MetricKey(<<i, j>>)] = SourceValue(t * a * b + i * b + j)

\* a 2 x 2 x 2 response with distinct keys whose last cell (t, i, j) =
\* (1, 1, 1) is values[7] = 80
C1_Witness ==
    /\ Flattened
    /\ response.id = <<"Kuukausi", "Sukupuoli", "Alue">>
    /\ Len(periodsOf) = 2 /\ sizesOf = <<2, 2>>
    /\ Len(results) = 2
    /\ "Label MK02 (Label F)" \in DOMAIN results[2]
    /\ results[2]["Label MK02 (Label F)"] = 80
    /\ results[1]["Label MK01 (Label F)"] = 30

\* C2: with three or more other dimensions of sizes s_1..s_n, every combo in
\* 0..(s_1*...*s_n - 1) is decoded into indices with 0 <= index_i < s_i and
\* combo = sum_i(index_i * product_{j>i} s_j); values[t * total + combo] is
\* stored under the labels joined by " / " in declared order (of a key
\* shared by several combinations, the one enumerated last); every
\* combination is enumerated exactly once per period.
C2_ManyDimDecoding ==
    (Flattened /\ Len(otherDimsOf) >= 3) =>
        LET total == Product(sizesOf)
            decoded == [combo \in 0..(total - 1) |-> ComboIndices(combo, sizesOf)]
            keys == KeyTable
        IN  /\ \A combo \in 0..(total - 1) :
                  LET ix == decoded[combo]
                  IN  /\ Len(ix) = Len(sizesOf)
                      /\ \A k \in 1..Len(ix) : 0 <= ix[k] /\ ix[k] < sizesOf[k]
                      /\ RowMajor(ix, sizesOf) = combo
                      /\ LastWithItsKey(keys, combo) =>
                            \A t \in 0..(Len(periodsOf) - 1) :
                                /\ keys[combo] \in DOMAIN results[t + 1]
                                /\ results[t + 1][keys[combo]] = SourceValue(t * total + combo)
            /\ {decoded[combo] : combo \in 0..(total - 1)} = Combinations(sizesOf)
            /\ Cardinality(Combinations(sizesOf)) = total

\* a 2 x 2 x 2 x 2 response: period 1, indices (1, 0, 1) is combo 5,
\* values[1 * 8 + 5] = 140
C2_Witness ==
    /\ Flattened
    /\ response.id = <<"Kuukausi", "Sukupuoli", "Alue", "Tiedot">>
    /\ Len(periodsOf) = 2 /\ sizesOf = <<2, 2, 2>>
    /\ Len(results) = 2
    /\ "Label F / Label MK01 / Label T2" \in DOMAIN results[2]
    /\ results[2]["Label F / Label MK01 / Label T2"] = 140

\* the response is structurally valid: every declared id has a dimension,
\* every category index map is a permutation of 0..N-1, and the value array
\* has one cell per combination of categories
AllDimensionsPresent == \A k \in 1..Len(response.id) : response.id[k] \in DOMAIN response.dimension

ContiguousIndex(d) ==
    LET entries == response.dimension[d].category.index
    IN  {entries[k].idx : k \in 1..Len(entries)} = 0..(Len(entries) - 1)

WellFormedDimensions ==
    AllDimensionsPresent /\ \A d \in DOMAIN response.dimension : ContiguousIndex(d)

ValueArrayMatches == Len(response.value) = Product(response.size)

TimeInResponse == timeDimCode \in Range(response.id)

\* the cell of period t and combination ix, addressed row-major over the
\* declared order of all dimensions (time included, wherever it stands)
DeclaredCell(t, ix) ==
    LET ids == response.id
        timePos == CHOOSE k \in 1..Len(ids) : ids[k] = timeDimCode
        coords == [k \in 1..Len(ids) |->
                     IF k = timePos THEN t ELSE ix[IF k < timePos THEN k ELSE k - 1]]
        sizes == [k \in 1..Len(ids) |-> Len(parsed.dimensions[ids[k]])]
    IN  SourceValue(RowMajor(coords, sizes))

\* C3: wherever the time dimension stands in the declared order, the value
\* in the row of period t for a combination is the source cell addressed
\* row-major by the declared order.
C3_DeclaredOrderAddressing ==
    (Flattened /\ WellFormedDimensions /\ ValueArrayMatches /\ TimeInResponse
               /\ Len(otherDimsOf) >= 1) =>
        LET keys == KeyTable
        IN  \A t \in 0..(Len(periodsOf) - 1), c \in DOMAIN keys :
                LastWithItsKey(keys, c) =>
                    /\ keys[c] \in DOMAIN results[t + 1]
                    /\ results[t + 1][keys[c]] = DeclaredCell(t, IndexVector(c, sizesOf))

\* the declared index of a category code of dimension d
DeclaredIndex(d, code) ==
    LET entries == response.dimension[d].category.index
    IN  entries[CHOOSE k \in 1..Len(entries) : entries[k].code = code].idx

DistinctIndex(d) ==
    LET entries == response.dimension[d].category.index
    IN  \A j, k \in 1..Len(entries) : entries[j].idx = entries[k].idx => j = k

\* the category of dimension d that stands at position pos (from 0) of the
\* declared order: pos categories have a smaller declared index
CategoryAt(d, pos) ==
    LET entries == response.dimension[d].category.index
    IN  entries[CHOOSE k \in 1..Len(entries) :
                  Cardinality({j \in 1..Len(entries) : entries[j].idx < entries[k].idx}) = pos].code

\* C4: flattening emits exactly one row per category of the time dimension,
\* in the time dimension's category order, for every number of other
\* dimensions.
C4_OneRowPerPeriod ==
    (Flattened /\ TimeInResponse /\ DistinctIndex(timeDimCode)) =>
        /\ Len(results) = Len(response.dimension[timeDimCode].category.index)
        /\ \A t \in 0..(Len(results) - 1) : results[t + 1]["period"] = CategoryAt(timeDimCode, t)

\* three other dimensions, time last in the declared order, the index map
\* iterated last category first
C4_Witness ==
    /\ Flattened
    /\ Len(response.id) = 4
    /\ response.id[4] = "Kuukausi"
    /\ Len(otherDimsOf) = 3
    /\ response.dimension["Kuukausi"].category.index[1] = [code |-> "2023M02", idx |-> 1]
    /\ Len(results) = 2
    /\ results[1]["period"] = "2023M01" /\ results[2]["period"] = "2023M02"

\* C5: a response with only the time dimension flattens to rows
\* {period, value} with value of row i equal to values[i].
C5_TimeOnlyRows ==
    (Flattened /\ Len(otherDimsOf) = 0) =>
        /\ Len(results) = Len(periodsOf)
        /\ \A i \in 0..(Len(results) - 1) :
              /\ DOMAIN results[i + 1] = {"period", "value"}
              /\ results[i + 1]["period"] = periodsOf[i + 1]
              /\ results[i + 1]["value"] = SourceValue(i)

C5_Witness ==
    /\ Flattened
    /\ response.id = <<"Kuukausi">>
    /\ response.value = <<<<10>>, <<20>>>>
    /\ results = <<[period |-> "2023M01", value |-> 10], [period |-> "2023M02", value |-> 20]>>

\* the response of scenario A: id = [time, gender], sizes [2, 2],
\* value = [10, 20, 30, 40], categories M and F shown by their codes
ScenarioA ==
    /\ response.id = <<"Kuukausi", "Sukupuoli">>
    /\ response.size = <<2, 2>>
    /\ response.value = <<<<10>>, <<20>>, <<30>>, <<40>>>>
    /\ response.dimension["Sukupuoli"].category.index =
           <<[code |-> "M", idx |-> 0], [code |-> "F", idx |-> 1]>>
    /\ response.dimension["Sukupuoli"].category.label = <<>>

\* C6: with exactly one other dimension of size n, the row of period t
\* holds, for each category index k < n, values[t*n + k] under that
\* category's label (of a label shared by several categories, the last
\* one), and nothing else; scenario A gives {M:10, F:20} and {M:30, F:40}.
C6_OneDimRows ==
    (Flattened /\ Len(otherDimsOf) = 1) =>
        LET n == sizesOf[1]
            keys == KeyTable
        IN  /\ \A t \in 0..(Len(periodsOf) - 1) :
                  /\ DOMAIN results[t + 1] =
                         {"period"} \cup {CategoryText(otherDimsOf[1], k) : k \in 0..(n - 1)}
                  /\ \A k \in 0..(n - 1) :
                        LastWithItsKey(keys, k) =>
                            results[t + 1][CategoryText(otherDimsOf[1], k)] = SourceValue(t * n + k)
            /\ ScenarioA =>
                  results = <<[period |-> "2023M01", M |-> 10, F |-> 20],
                              [period |-> "2023M02", M |-> 30, F |-> 40]>>

C6_Witness ==
    /\ Flattened
    /\ ScenarioA
    /\ results = <<[period |-> "2023M01", M |-> 10, F |-> 20],
                   [period |-> "2023M02", M |-> 30, F |-> 40]>>

\* C7: with exactly two other dimensions the key of combination (i, j) is
\* "<dim2Label> (<dim1Label>)" when the first other dimension has more than
\* one category, and the plain second-dimension label when it has one.
C7_TwoDimKeys ==
    (Flattened /\ Len(otherDimsOf) = 2) =>
        LET a == sizesOf[1]
            b == sizesOf[2]
            key(i, j) ==
                IF a > 1
                THEN CategoryText(otherDimsOf[2], j) \o " (" \o CategoryText(otherDimsOf[1], i) \o ")"
                ELSE CategoryText(otherDimsOf[2], j)
        IN  \A t \in 0..(Len(periodsOf) - 1) :
                DOMAIN results[t + 1] =
                    {"period"} \cup {key(i, j) : i \in 0..(a - 1), j \in 0..(b - 1)}

\* the first other dimension has one category: plain keys
C7_Witness ==
    /\ Flattened
    /\ response.id = <<"Kuukausi", "Sukupuoli", "Alue">>
    /\ sizesOf = <<1, 2>>
    /\ Len(results) = 2
    /\ DOMAIN results[1] = {"period", "Label MK01", "Label MK02"}

\* C8: parseJsonStat returns, for every dimension of the id array, its
\* category codes sorted ascending by declared index (position k holds the
\* code of declared index k when the index map is a permutation of
\* 0..N-1), whatever the iteration order of the index map, and the
\* dimension's code-to-label map.
C8_SortedByDeclaredIndex ==
    Flattened =>
        /\ DOMAIN parsed.dimensions = Range(response.id)
        /\ DOMAIN parsed.labels = Range(response.id)
        /\ \A d \in Range(response.id) :
              LET out == parsed.dimensions[d]
                  entries == response.dimension[d].category.index
              IN  /\ Len(out) = Len(entries)
                  /\ Range(out) = {entries[k].code : k \in 1..Len(entries)}
                  /\ \A j, k \in 1..Len(out) :
                        j < k => DeclaredIndex(d, out[j]) <= DeclaredIndex(d, out[k])
                  /\ ContiguousIndex(d) =>
                        \A k \in 1..Len(out) : DeclaredIndex(d, out[k]) = k - 1
                  /\ parsed.labels[d] = response.dimension[d].category.label

\* the index map lists F (index 1) before M (index 0)
C8_Witness ==
    /\ Flattened
    /\ "Sukupuoli" \in DOMAIN response.dimension
    /\ response.dimension["Sukupuoli"].category.index =
           <<[code |-> "F", idx |-> 1], [code |-> "M", idx |-> 0]>>
    /\ parsed.dimensions["Sukupuoli"] = <<"M", "F">>

\* C9: if the length of the value array differs from the product of the
\* dimension sizes, flattening fails (ValueArrayMismatch) and produces no
\* rows from the truncated or overlong array.
C9_ValueArrayMismatchFails ==
    ~ValueArrayMatches => (results = <<>> /\ (Flattened /\ ~loading => error # "null"))

\* C10: resolving the dimensions fails (MalformedDimension) when a category
\* index map is not a permutation of 0..N-1 or when the id array names a
\* dimension the dimension map lacks, so no rows come from such a response.
C10_MalformedDimensionFails ==
    ~WellFormedDimensions => (~parsed.ok /\ results = <<>>)

\* the keys a row carries besides "period": "value" when time is the only
\* dimension, else the key of every combination of the other dimensions
RowMetricKeys ==
    IF Len(otherDimsOf) = 0 THEN {"value"} ELSE {KeyTable[c] : c \in DOMAIN KeyTable}

\* the source array holds no number at 0-based position i: the position is
\* past its end or holds null
CellAbsent(i) == i + 1 \notin DOMAIN response.value \/ response.value[i + 1] = <<>>

\* every row has exactly the period and the metric keys, each metric key
\* holding a number, and a cell the source lacks is stored as 0
RowsCompleteAndNumeric ==
    Flattened =>
        LET keys == KeyTable
            combos == Product(sizesOf)
        IN  /\ Len(results) = Len(periodsOf)
            /\ \A t \in 0..(Len(periodsOf) - 1) :
                  /\ DOMAIN results[t + 1] = {"period"} \cup RowMetricKeys
                  /\ \A k \in RowMetricKeys : results[t + 1][k] \in Int
                  /\ Len(otherDimsOf) = 0 /\ CellAbsent(t) => results[t + 1]["value"] = 0
                  /\ Len(otherDimsOf) > 0 =>
                        \A c \in DOMAIN keys :
                            (LastWithItsKey(keys, c) /\ CellAbsent(t * combos + c)) =>
                                results[t + 1][keys[c]] = 0

\* a resolved request whose response parses leaves the error unset
NoErrorWhenParsed == (QueryResolved /\ parseJsonStat(response).ok) => error' = "null"

\* C11: a cell that is null or lies past the end of the value array is
\* stored as 0 and raises no error, so every metric key of every flattened
\* row holds a number and the set of rows is complete.
C11_MissingCellIsZero == []RowsCompleteAndNumeric /\ [][NoErrorWhenParsed]_vars

\* a 2-period, 2-category response whose value array stops one cell short:
\* the cell past its end is stored as 0 and no error is shown
C11_Witness ==
    /\ Flattened /\ ~loading /\ error = "null"
    /\ response.id = <<"Kuukausi", "Sukupuoli">>
    /\ response.size = <<2, 2>>
    /\ Len(response.value) = 3
    /\ Len(results) = 2
    /\ results[2]["Label F"] = 0

(***************************************************************************)
(* Vocabulary of the properties of the charts.                             *)
(***************************************************************************)
\* the distance of the year-over-year comparison: the chart's periodsBack,
\* 12 (monthly data) for EmploymentChart
periodsBackOf ==
    IF chartProps.component = "TrendChart" THEN chartProps.periodsBack ELSE 12

\* the metrics a chart is asked to compare: the key read from the rows,
\* the key written to the YoY rows, and whether the metric is a rate
RequestedMetrics ==
    IF chartProps.component = "TrendChart"
    THEN {[source |-> chartProps.metricPrefix \o "_" \o r,
           yoy |-> chartProps.metricPrefix \o "_yoy_" \o r,
           isRate |-> chartProps.isRate] : r \in Range(chartProps.selectedRegions)}
    ELSE IF chartProps.yoyConfigs # <<>>
    THEN {[source |-> c.dataKey, yoy |-> "yoy_" \o c.dataKey, isRate |-> c.isRate] :
            c \in Range(chartProps.yoyConfigs[1].lines)}
    ELSE {[source |-> c.dataKey, yoy |-> "yoyValue", isRate |-> c.isRate] :
            c \in Range(chartProps.yoyConfig)}

\* the row holds a number under the key
HoldsNumber(row, key) == key \in DOMAIN row /\ DOMAIN row[key] = {"n", "d"}

\* the derived value of metric m (section 4.3) from a current and a
\* reference row
DerivedValue(m, current, reference) ==
    IF ~(HoldsNumber(current, m.source) /\ HoldsNumber(reference, m.source)) THEN Whole(0)
    ELSE LET cur == current[m.source]
             ref == reference[m.source]
         IN  IF m.isRate THEN NumSub(cur, ref)
             ELSE IF ref = Whole(0) THEN Whole(0)
             ELSE NumMul(NumDiv(NumSub(cur, ref), ref), Whole(100))

\* the 0-based entry i of the YoY series, its current row and its
\* reference row
YoyRow(i) == chartView.yoyData[i + 1]

CurrentRow(i) == chartData[periodsBackOf + i + 1]

ReferenceRow(i) == chartData[i + 1]

\* C12: with more than periodsBack rows the YoY series has
\* rows.length - periodsBack entries; entry i carries the period of
\* rows[periodsBack + i] unchanged and, for every metric, the value derived
\* from rows[periodsBack + i] and rows[i].
C12_YoySeriesPairsRows ==
    Len(chartData) > periodsBackOf =>
        /\ Len(chartView.yoyData) = Len(chartData) - periodsBackOf
        /\ \A i \in 0..(Len(chartData) - periodsBackOf - 1) :
              /\ YoyRow(i)["period"] = CurrentRow(i)["period"]
              /\ \A m \in RequestedMetrics :
                    /\ m.yoy \in DOMAIN YoyRow(i)
                    /\ YoyRow(i)[m.yoy] = DerivedValue(m, CurrentRow(i), ReferenceRow(i))

\* 13 monthly rows, the first 100 and the 13th 110: one entry, of the 13th
\* period, 10 % above the first row
C12_Witness ==
    /\ chartProps.component = "TrendChart" /\ chartProps.periodsBack = 12
    /\ ~chartProps.isRate
    /\ Len(chartData) = 13
    /\ HoldsNumber(chartData[1], "employed_SSS") /\ HoldsNumber(chartData[13], "employed_SSS")
    /\ chartData[1]["employed_SSS"] = Whole(100)
    /\ chartData[13]["employed_SSS"] = Whole(110)
    /\ Len(chartView.yoyData) = 1
    /\ chartView.yoyData[1]["period"] = "2024M01"
    /\ chartView.yoyData[1]["employed_yoy_SSS"] = Whole(10)

\* both rows of entry i hold a number under the source key of metric m
BothNumbers(m, i) ==
    HoldsNumber(CurrentRow(i), m.source) /\ HoldsNumber(ReferenceRow(i), m.source)

YoyEntries == 0..(Len(chartView.yoyData) - 1)

\* C13: when both values are numbers, the derived value of a rate metric
\* is current - reference (5.0 to 7.5 gives 2.5) and that of any other
\* metric is (current - reference) / reference * 100 (100 to 150 gives 50).
C13_DifferenceOrPercent ==
    \A i \in YoyEntries, m \in RequestedMetrics :
        BothNumbers(m, i) =>
            LET cur == CurrentRow(i)[m.source]
                ref == ReferenceRow(i)[m.source]
                out == YoyRow(i)[m.yoy]
            IN  /\ m.isRate => out = NumSub(cur, ref)
                /\ (~m.isRate /\ ref.n # 0) =>
                      /\ NumMul(out, ref) = NumMul(NumSub(cur, ref), Whole(100))
                      /\ (ref = Whole(100) /\ cur = Whole(150)) => out = Whole(50)
                /\ (m.isRate /\ ref = Whole(5) /\ cur = Num(15, 2)) => out = Num(5, 2)

\* EmploymentChart with a count and a rate line: the count rises from 100
\* to 150, 50 %, while the rate goes from 150 to 100, -50 points
C13_Witness ==
    /\ chartProps.component = "EmploymentChart" /\ chartProps.yoyConfigs # <<>>
    /\ Len(chartData) = 13
    /\ BothNumbers([source |-> "employed"], 0) /\ BothNumbers([source |-> "employmentRate"], 0)
    /\ chartData[1]["employed"] = Whole(100) /\ chartData[13]["employed"] = Whole(150)
    /\ chartData[1]["employmentRate"] = Whole(150) /\ chartData[13]["employmentRate"] = Whole(100)
    /\ Len(chartView.yoyData) = 1
    /\ chartView.yoyData[1]["yoy_employed"] = Whole(50)
    /\ chartView.yoyData[1]["yoy_employmentRate"] = Whole(-50)

\* C14: a count metric whose reference value is 0 has the derived value 0,
\* and no derived value is Infinity or NaN.
C14_ZeroReferenceGivesZero ==
    \A i \in YoyEntries, m \in RequestedMetrics :
        /\ m.yoy \in DOMAIN YoyRow(i)
        /\ HoldsNumber(YoyRow(i), m.yoy)
        /\ IsFiniteNum(YoyRow(i)[m.yoy])
        /\ (BothNumbers(m, i) /\ ~m.isRate /\ ReferenceRow(i)[m.source] = Whole(0)) =>
              YoyRow(i)[m.yoy] = Whole(0)

\* a count that was 0 a year ago and is 100 now: derived value 0
C14_Witness ==
    /\ chartProps.component = "TrendChart" /\ ~chartProps.isRate
    /\ chartProps.periodsBack = 4
    /\ Len(chartData) = 5
    /\ BothNumbers([source |-> "employed_SSS"], 0)
    /\ chartData[1]["employed_SSS"] = Whole(0) /\ chartData[5]["employed_SSS"] = Whole(100)
    /\ chartView.yoyData[1]["employed_yoy_SSS"] = Whole(0)

\* C15: when the current or the reference value is missing or not a number
\* the derived value is 0, so every requested metric has an entry in every
\* row of the YoY series.
C15_NonNumberGivesZero ==
    \A i \in YoyEntries, m \in RequestedMetrics :
        /\ m.yoy \in DOMAIN YoyRow(i)
        /\ ~BothNumbers(m, i) => YoyRow(i)[m.yoy] = Whole(0)

\* one region's key is absent from the reference row, the other region's
\* from the current row: both derived values are 0
C15_Witness ==
    /\ chartProps.component = "TrendChart" /\ chartProps.periodsBack = 4
    /\ Len(chartData) = 5
    /\ "employed_SSS" \notin DOMAIN chartData[1]
    /\ HoldsNumber(chartData[5], "employed_SSS")
    /\ HoldsNumber(chartData[1], "employed_MK01")
    /\ "employed_MK01" \notin DOMAIN chartData[5]
    /\ DOMAIN YoyRow(0) = {"period", "employed_yoy_SSS", "employed_yoy_MK01"}
    /\ YoyRow(0)["employed_yoy_SSS"] = Whole(0)
    /\ YoyRow(0)["employed_yoy_MK01"] = Whole(0)

\* C16: a chart is in YoY mode only with more than periodsBack rows; with
\* the toggle set and at most periodsBack rows it displays the original
\* rows and its YoY series is empty.
C16_YoYModeNeedsEnoughRows ==
    /\ chartView.isYoYMode => (showYoY /\ Len(chartData) > periodsBackOf)
    /\ (showYoY /\ Len(chartData) > periodsBackOf) =>
          (chartView.isYoYMode /\ chartView.displayData = chartView.yoyData)
    /\ Len(chartData) <= periodsBackOf =>
          (chartView.displayData = chartData /\ chartView.yoyData = <<>>)

\* the toggle was set with 13 rows, then the parent handed down 12
C16_Witness ==
    /\ showYoY
    /\ chartProps.component = "EmploymentChart"
    /\ Len(chartFeed) = 13 /\ Len(chartData) = 12
    /\ ~chartView.isYoYMode
    /\ chartView.displayData = chartData
    /\ chartView.yoyData = <<>>

\* the numbers the chart plots: those its displayed rows hold under its
\* lines
PlottedNumbers ==
    UNION {{row[key] : key \in {k \in Range(chartView.lines) : HoldsNumber(row, k)}} :
              row \in Range(chartView.displayData)}

Smallest(numbers) == CHOOSE v \in numbers : \A w \in numbers : NumLeq(v, w)

Largest(numbers) == CHOOSE v \in numbers : \A w \in numbers : NumLeq(w, v)

\* the nice numbers {1, 2, 5, 10} x 10^n within the magnitudes of the model
NiceNumbers == {NumMul(Whole(f), Pow10(e)) : f \in {1, 2, 5, 10}, e \in (-3)..3}

\* the smallest nice number that is not below v
SmallestNiceAtLeast(v) ==
    CHOOSE x \in NiceNumbers :
        NumLeq(v, x) /\ \A y \in NiceNumbers : NumLeq(v, y) => NumLeq(x, y)

\* the chart renders its year-over-year series and plots a number
PlotsYoY == chartView.isYoYMode /\ PlottedNumbers # {}

\* the bounds of the rendered axis are the numbers lo and hi
AxisIs(lo, hi) == chartView.yAxisDomain = [tag |-> "numbers", lo |-> lo, hi |-> hi]

\* C17: for a positive v, getNiceNumber(v, true) is the smallest member of
\* {1, 2, 5, 10} x 10^n that is not below v, and getNiceNumber(0) is 0; so
\* an upper bound of the YoY axis is 0 or a nice number above every plotted
\* value.
C17_NiceNumberRoundsUp ==
    /\ getNiceNumber(Whole(0), TRUE) = Whole(0)
    /\ \A p \in PlottedNumbers :
          \A v \in {NumAbs(p), NumMul(NumAbs(p), Num(11, 10))} :
              v # Whole(0) =>
                  /\ getNiceNumber(v, TRUE) = SmallestNiceAtLeast(v)
                  /\ NumLeq(v, getNiceNumber(v, TRUE))
    /\ PlotsYoY =>
          /\ chartView.yAxisDomain.tag = "numbers"
          /\ chartView.yAxisDomain.hi \in NiceNumbers \cup {Whole(0)}
          /\ \A p \in PlottedNumbers : NumLeq(p, chartView.yAxisDomain.hi)

\* YoY values 0 and 30: the padded maximum 33 is rounded up to 50
C17_Witness ==
    /\ PlotsYoY
    /\ PlottedNumbers = {Whole(0), Whole(30)}
    /\ getNiceNumber(Whole(33), TRUE) = Whole(50)
    /\ chartView.yAxisDomain.hi = Whole(50)

\* C18: in YoY mode, when the plotted values straddle zero, the bounds are
\* [-M, M] with M = getNiceNumber(max(|min|, |max|) * 1.1, true), a nice
\* number not below 1.1 times the largest magnitude.
C18_SymmetricAroundZero ==
    (PlotsYoY /\ NumLess(Smallest(PlottedNumbers), Whole(0))
              /\ NumLess(Whole(0), Largest(PlottedNumbers))) =>
        LET absMax == NumMax(NumAbs(Smallest(PlottedNumbers)), NumAbs(Largest(PlottedNumbers)))
            M == getNiceNumber(NumMul(absMax, Num(11, 10)), TRUE)
        IN  /\ AxisIs(NumNeg(M), M)
            /\ NumLeq(NumMul(absMax, Num(11, 10)), M)
            /\ M \in NiceNumbers

\* YoY values -3 and 7: 7.7 is rounded up, the bounds are [-10, 10]
C18_Witness ==
    /\ PlotsYoY
    /\ PlottedNumbers = {Whole(-3), Whole(7)}
    /\ AxisIs(Whole(-10), Whole(10))

\* C19: in YoY mode, when the plotted values do not straddle zero, the
\* padding is 10 % of max - min; with min >= 0 the bounds are
\* [0, getNiceNumber(max + padding, true)], with max <= 0 they are
\* [-getNiceNumber(|min - padding|, true), 0].
C19_PaddedOneSided ==
    PlotsYoY =>
        LET min == Smallest(PlottedNumbers)
            max == Largest(PlottedNumbers)
            padding == NumDiv(NumSub(max, min), Whole(10))
        IN  /\ NumLeq(Whole(0), min) =>
                  AxisIs(Whole(0), getNiceNumber(NumAdd(max, padding), TRUE))
            /\ NumLeq(max, Whole(0)) =>
                  AxisIs(NumNeg(getNiceNumber(NumAbs(NumSub(min, padding)), TRUE)), Whole(0))

\* YoY values -8 and -2: the padding is 0.6 and 8.6 is rounded up, the
\* bounds are [-10, 0]
C19_Witness ==
    /\ PlotsYoY
    /\ PlottedNumbers = {Whole(-8), Whole(-2)}
    /\ AxisIs(Whole(-10), Whole(0))

\* EmploymentChart outside YoY mode with scaleMode 'absolute', plotting a
\* number
ZeroBased ==
    /\ chartProps.component = "EmploymentChart"
    /\ ~chartView.isYoYMode
    /\ scaleMode = "absolute"
    /\ PlottedNumbers # {}

NumericAxis == chartView.yAxisDomain.tag = "numbers"

\* C29: whenever the YoY-mode axis has numeric bounds [lo, hi], every
\* plotted number lies within them: lo <= value <= hi, whether the values
\* straddle zero, are all non-negative or are all non-positive.
C29_YoYBoundsEncloseData ==
    (PlotsYoY /\ NumericAxis) =>
        \A p \in PlottedNumbers :
            /\ NumLeq(chartView.yAxisDomain.lo, p)
            /\ NumLeq(p, chartView.yAxisDomain.hi)

\* YoY values 2 and 8 within the bounds [0, 10]
C29_Witness ==
    /\ PlotsYoY
    /\ PlottedNumbers = {Whole(2), Whole(8)}
    /\ AxisIs(Whole(0), Whole(10))

\* C30: whenever the axis has numeric bounds [lo, hi], in YoY, absolute or
\* relative mode, lo < hi.
C30_ProperRange ==
    (NumericAxis /\ PlottedNumbers # {}) =>
        NumLess(chartView.yAxisDomain.lo, chartView.yAxisDomain.hi)

\* the place in the enumeration of the last combination that synthesizes
\* the key of the c-th
LastOfKey(keys, c) ==
    CHOOSE last \in DOMAIN keys :
        keys[last] = keys[c] /\ \A d \in DOMAIN keys : keys[d] = keys[c] => d <= last

\* two distinct combinations synthesize the same metric key
KeysCollide(keys) == \E c \in DOMAIN keys, d \in DOMAIN keys : c < d /\ keys[c] = keys[d]

\* C23: when two combinations of one period synthesize the same metric key,
\* the row holds one column under that key with the value of the
\* combination enumerated last, no error is set, and the row has fewer
\* metric keys than the product of the other dimensions' sizes.
CollidingKeysOverwritten ==
    (Flattened /\ Len(otherDimsOf) >= 1) =>
        LET keys == KeyTable
            total == Product(sizesOf)
        IN  KeysCollide(keys) =>
                /\ Len(results) = Len(periodsOf)
                /\ \A t \in 0..(Len(periodsOf) - 1) :
                      /\ DOMAIN results[t + 1] \ {"period"} = {keys[c] : c \in DOMAIN keys}
                      /\ Cardinality(DOMAIN results[t + 1] \ {"period"}) < total
                      /\ \A c \in DOMAIN keys :
                            results[t + 1][keys[c]] = SourceValue(t * total + LastOfKey(keys, c))

\* the response labels two categories of a dimension alike
DuplicateLabels ==
    \E d \in DOMAIN response.dimension :
        LET labelMap == response.dimension[d].category.label
        IN  \E c1 \in DOMAIN labelMap, c2 \in DOMAIN labelMap :
                c1 # c2 /\ labelMap[c1] = labelMap[c2]

\* a resolved request whose response labels two categories alike sets no
\* error
CollisionSetsNoError == (QueryResolved /\ parsed'.ok /\ DuplicateLabels) => error' = "null"

C23_LastWriteWins == []CollidingKeysOverwritten /\ [][CollisionSetsNoError]_vars

\* two categories of Sukupuoli labelled alike: one column, holding the
\* value of the second category (20 of the cells 10, 20)
C23_Witness ==
    /\ Flattened
    /\ response.id = <<"Kuukausi", "Sukupuoli">>
    /\ sizesOf = <<2>>
    /\ Len(results) = 1
    /\ KeysCollide(KeyTable)
    /\ DuplicateLabels
    /\ Cardinality(DOMAIN results[1] \ {"period"}) = 1
    /\ \A key \in DOMAIN results[1] \ {"period"} : results[1][key] = 20
    /\ error = "null"

\* C28: when no dimension of the parsed response has the time identifier
\* the query chose (the 'Kuukausi' fallback included), the flattening gives
\* an empty list of rows and sets no error, whatever the value array holds.
NoRowsWithoutTimeDimension ==
    (Flattened /\ ~TimeInResponse) =>
        /\ results = <<>>
        /\ \A values \in {<<>>, <<<<>>>>, parsed.values, parsed.values \o parsed.values} :
              Transformed([parsed EXCEPT !.values = values], timeDimCode) = <<>>

\* a resolved request whose response has no dimension of the time
\* identifier sets no error
NoTimeDimensionSetsNoError ==
    (QueryResolved /\ parsed'.ok /\ ~TimeInResponse) => (error' = "null" /\ results' = <<>>)

C28_NoTimeDimensionNoRows ==
    []NoRowsWithoutTimeDimension /\ [][NoTimeDimensionSetsNoError]_vars

\* the time dimension is called Jakso, which isTimeVariable does not
\* recognise: the fallback Kuukausi names no dimension
C28_Witness ==
    /\ Flattened
    /\ "Jakso" \in Range(response.id)
    /\ timeDimCode = "Kuukausi"
    /\ ~TimeInResponse
    /\ Len(response.value) > 0
    /\ results = <<>>
    /\ error = "null"
    /\ hasQueried /\ ~loading

\* the Sandbox's axis as its last render computed it
SandboxAxis == SandboxYAxisDomain(results, sandboxScaleMode)

\* no row of the chart holds a number that is not NaN under a displayed line
ChartPlotsNothing ==
    \A r \in 1..Len(chartView.displayData), k \in 1..Len(chartView.lines) :
        LET row == chartView.displayData[r]
            key == chartView.lines[k]
        IN  HoldsNumber(row, key) => IsNaN(row[key])

\* no row of the Sandbox's results holds a number under a data key
SandboxPlotsNothing ==
    \A r \in 1..Len(results) : \A key \in DOMAIN results[r] \ {"period"} : results[r][key] \notin Int

\* C21: when the displayed data is empty or holds no number under any
\* displayed line, the axis bounds are no pair of numbers, in every mode:
\* TrendChart and EmploymentChart return undefined, the Sandbox returns
\* undefined in relative mode and [0, 'auto'] in absolute mode.
C21_NoNumbersNoNumericBounds ==
    /\ ChartPlotsNothing =>
          /\ chartView.yAxisDomain.tag # "numbers"
          /\ chartView.yAxisDomain = UndefinedDomain
    /\ SandboxPlotsNothing =>
          /\ SandboxAxis.tag # "numbers"
          /\ SandboxAxis = IF sandboxScaleMode = "relative" THEN UndefinedDomain
                           ELSE ZeroAutoDomain

\* an EmploymentChart in relative mode whose two rows hold a text under its
\* line, next to a Sandbox in relative mode whose query returned no row
C21_Witness ==
    /\ chartProps.component = "EmploymentChart"
    /\ scaleMode = "relative"
    /\ Len(chartView.displayData) = 2
    /\ ChartPlotsNothing
    /\ chartView.yAxisDomain = UndefinedDomain
    /\ hasQueried /\ ~loading /\ parsed.ok
    /\ results = <<>>
    /\ sandboxScaleMode = "relative"
    /\ SandboxAxis = UndefinedDomain

(***************************************************************************)
(* Properties of the Sandbox's query state machine and selectors.          *)
(***************************************************************************)

\* no table metadata is loaded
MetadataMissing == tableMetadata = NoMetadata

\* C27: at most one data query of the Sandbox is in flight at any time: a
\* query is in flight only while loading is true, none is ever started
\* without table metadata, and a step that starts one is taken with loading
\* false and the metadata loaded.
C27_AtMostOneQueryInFlight ==
    /\ [](queriesInFlight <= 1)
    /\ [](queriesInFlight = 1 => loading)
    /\ [](MetadataMissing => (queriesInFlight = 0 /\ ~hasQueried))
    /\ [][queriesInFlight' > queriesInFlight => (~loading /\ ~MetadataMissing)]_vars

\* a query is in flight and the button is disabled
C27_Witness ==
    /\ queriesInFlight = 1
    /\ loading
    /\ hasQueried
    /\ QueryDisabled

\* a step in which a run of executeQuery ends
QuerySettles == queriesInFlight' < queriesInFlight

\* C26: when the request is rejected or the response does not parse,
\* executeQuery sets an error message and leaves the stored results as
\* they were (a run that ends with other results ends without an error);
\* the results panel is rendered only with hasQueried true, loading false
\* and error null, so never together with the error box.
C26_FailureKeepsResults ==
    /\ [][QueryRejected => (error' # "null" /\ results' = results)]_vars
    /\ [][(QuerySettles /\ ~parseJsonStat(response).ok) =>
              (error' # "null" /\ results' = results)]_vars
    /\ [][(QuerySettles /\ error' # "null") => results' = results]_vars
    /\ [](ResultsPanelShown => (hasQueried /\ ~loading /\ error = "null"))
    /\ [](~(ResultsPanelShown /\ ErrorShown))

\* a rejected query after a successful one: the error is shown, the earlier
\* rows are still stored and the panel is not rendered
C26_Witness ==
    /\ results # <<>>
    /\ error = QueryFailedMessage
    /\ hasQueried
    /\ ~loading
    /\ ErrorShown
    /\ ~ResultsPanelShown

\* a step in which a run of executeQuery starts
QueryStarts == queriesInFlight' > queriesInFlight

\* C25: a run of executeQuery starts by setting loading, clearing the error
\* and setting hasQueried; every started run eventually ends with loading
\* false, whether it succeeds or throws, and loading is false whenever no
\* run is in flight.
C25_LoadingEventuallyEnds ==
    /\ [][QueryStarts => (loading' /\ error' = "null" /\ hasQueried')]_vars
    /\ [](queriesInFlight = 0 => ~loading)
    /\ (loading ~> ~loading)

\* a run has ended by a throw: the response did not parse
C25_Witness ==
    /\ hasQueried
    /\ queriesInFlight = 0
    /\ ~loading
    /\ ~parsed.ok
    /\ error = QueryFailedMessage

\* every variable's selection holds one to five values, each once
SelectionsWithinLimits ==
    \A code \in DOMAIN selections :
        /\ 1 <= Len(selections[code])
        /\ Len(selections[code]) <= 5
        /\ Cardinality(Range(selections[code])) = Len(selections[code])

\* a click on the only selected value, or on an unselected value with five
\* selected, returns the selections as they are; a click on a value of one
\* variable returns every other variable's selection as it is
TogglePreserves ==
    \A code \in DOMAIN selections : \A value \in Range(VariableValues(code)) :
        LET after == Toggled(selections, code, value)
        IN  /\ selections[code] = <<value>> => after = selections
            /\ (Len(selections[code]) = 5 /\ value \notin Range(selections[code])) =>
                  after = selections
            /\ DOMAIN after = DOMAIN selections
            /\ \A other \in DOMAIN selections \ {code} : after[other] = selections[other]
            /\ (Len(selections[code]) > 1 /\ value \in Range(selections[code])) =>
                  Range(after[code]) = Range(selections[code]) \ {value}
            /\ (Len(selections[code]) < 5 /\ value \notin Range(selections[code])) =>
                  after[code] = Append(selections[code], value)

\* a step changes the selection of at most one variable, and nothing else
\* of the state when it changes none
OneSelectionChanges ==
    /\ DOMAIN selections' = DOMAIN selections
    /\ Cardinality({code \in DOMAIN selections : selections'[code] # selections[code]}) <= 1
    /\ UNCHANGED <<sandboxVars, chartVars, sandboxScaleMode, tableId, metadataLoading,
                   metadataRequests>>

\* C24: after any sequence of toggle clicks that starts from one to five
\* distinct selected values, every variable's selection holds one to five
\* distinct values; deselecting the only value and selecting a sixth leave
\* the state as it is, and a click never changes another variable's
\* selection.
C24_SelectionStaysWithinLimits ==
    /\ []SelectionsWithinLimits
    /\ []TogglePreserves
    /\ [][OneSelectionChanges]_vars

\* five values of Alue are selected, the first deselected and selected
\* again, and Sukupuoli is down to its last value
C24_Witness ==
    /\ tableMetadata = MetadataOf("137l")
    /\ Len(selections["Alue"]) = 5
    /\ selections["Alue"][5] = CategoryCode("Alue", 1)
    /\ selections["Sukupuoli"] = <<CategoryCode("Sukupuoli", 3)>>

\* every fetchMetadata run has got its answer
NoFetchOutstanding == metadataRequests = <<>>

\* C22: once every outstanding fetch has completed, the stored metadata and
\* selections are those of the table selected last, never those of a table
\* selected earlier (and none when no table is selected).
C22_LatestSelectionWins ==
    NoFetchOutstanding =>
        /\ (tableId = NoTable) => tableMetadata = NoMetadata
        /\ (tableId # NoTable /\ tableMetadata # NoMetadata) =>
              /\ tableMetadata = MetadataOf(tableId)
              /\ selections = DefaultSelections(MetadataOf(tableId))

====
